---- MODULE Spec2Model ----
(***************************************************************************)
(* SimpleChat: the User/Profile mapper (UserProfile), the generic         *)
(* multi-table mappers (Transaction, APIHandler), the profile routes and  *)
(* Auth, over the hosted store's Users and Profiles tables.               *)
(*                                                                         *)
(* Every value is an integer: 0 stands for null / undefined / absent,     *)
(* record ids and field values are positive, a bcrypt hash is negative.   *)
(***************************************************************************)
EXTENDS Integers, FiniteSets, Sequences, TLC

\* ----------------------------------------------------------------- bounds
MaxRecs == 1        \* records the store creates per table
NumValues == 2      \* distinct email addresses
NumNames == 1       \* distinct usernames
NProcs == 2         \* requests that can be in flight
MaxLen == 2         \* length of a query string value and of a query array
MaxNum == 11        \* largest number in a query
MaxPage == 2        \* page numbers and page sizes of a search query
MaxRows == 3        \* user profiles in the store that a search query reads
MaxOps == 2         \* operations added to a transaction

Procs == 1..NProcs
UserIds == 1..MaxRecs
\* Profile ids a caller can name: those the store hands out, and one it
\* never hands out.
ProfileIds == 1..(MaxRecs + 1)
Values == 1..NumValues
OptValues == 0..NumValues
OptNames == 0..NumNames

\* ------------------------------------------------------------ store rows
\* A row of the Users table; ex = FALSE is "no record with this id".
NoUser == [ex |-> FALSE, email |-> 0, password |-> 0]
\* A row of the Profiles table; user is the link to Users (0: not linked);
\* categories is an array column: 0 is the empty array, 1 a non-empty one.
NoProfile == [ex |-> FALSE, user |-> 0, username |-> 0, categories |-> 0]

\* HashGenerator.hash: bcrypt of a plaintext; never equal to a plaintext.
Hash(p) == 0 - p

\* The value object passed to UserProfile.create / update.
NoValue == [email |-> 0, password |-> 0, username |-> 0, categories |-> 0]
\* One plaintext password: the code hashes it and never compares passwords.
Passwords == {1}
\* (the schema of a user profile has no categories key)
CreateValues ==
  [email : Values, password : Passwords, username : OptNames,
   categories : {0}]
PartialValues ==
  [email : OptValues, password : {0} \cup Passwords, username : OptNames,
   categories : {0}]

\* ---------------------------------------------------------------- tokens
\* A JWT: the key that signed it and its "sub" claim (0: no string subject);
\* BadToken is any string that verifies under neither key (forged, expired).
NoToken == [kind |-> "none", sub |-> 0]
BadToken == [kind |-> "bad", sub |-> 0]
Tokens == {BadToken} \cup [kind : {"access", "refresh"}, sub : 0..MaxRecs]

\* request.headers.get("Authorization")?.split(" "): no header, or a scheme
\* followed by a token or by nothing. Under a scheme other than JWT the
\* token is never looked at: an access token stands for all.
NoHeader == [scheme |-> "", token |-> NoToken]
Headers ==
  {NoHeader}
  \cup [scheme : {"JWT"}, token : Tokens \cup {NoToken}]
  \cup [scheme : {"Bearer"}, token : [kind : {"access"}, sub : 0..MaxRecs]]

\* request.cookies.get("refresh")?.value
Cookies == Tokens \cup {NoToken}

\* What Auth.authenticate gives: an AuthCheck {profile, access?} when ok, a
\* throw otherwise. History: accessProfile is the profile useAccessToken
\* gave (0: undefined), generated the token generate.AccessToken signed,
\* readThrew whether a Profiles.read of the call threw.
NoAuth ==
  [done |-> FALSE, ok |-> FALSE, profile |-> 0, access |-> NoToken,
   generated |-> NoToken, accessProfile |-> 0, readThrew |-> FALSE]

\* The keys of a user profile payload that can fail its schema.
PayloadKeys == {"email", "password", "username"}

\* --------------------------------------------------------- query strings
\* The characters of a query value: a plain one and the array separator.
Chars == {"a", ","}
Strings(n) == UNION {[1..k -> Chars] : k \in 0..n}

\* A search query over the template {page: 0, search: "", categories: [""]}:
\* each key absent (<<>>) or present with a value of the template's type
\* (<<value>>): a number, a string, an array of 1..MaxLen strings.
NoQuery == [page |-> <<>>, search |-> <<>>, categories |-> <<>>]
Queries ==
  [page : {<<>>} \cup {<<n>> : n \in 0..MaxNum},
   search : {<<>>} \cup {<<t>> : t \in Strings(MaxLen)},
   categories :
     {<<>>} \cup {<<a>> : a \in UNION {[1..k -> Strings(1)] : k \in 1..MaxLen}}]

\* ------------------------------------------------------ request payloads
\* The body of a create or update request: each key absent (0) or present.
\* The payloads leave categories out: it is a Profiles key as username is.
Payloads ==
  [email : OptNames, password : {0} \cup Passwords, username : OptNames,
   categories : {0}]

\* ------------------------------------------------------ returned objects
\* What a method hands back to its caller: a serialized object ("object",
\* with the set of its keys), a page ("page", with count and the key sets of
\* the elements of results), the { error } object of a validation error
\* ("error") or the message string of another error ("message").
\* The page and size of a search query: absent (<<>>) or a number (<<n>>).
NoPagination == [page |-> <<>>, size |-> <<>>]
Paginations ==
  [page : {<<>>} \cup {<<n>> : n \in (0 - 1)..MaxPage},
   size : {<<>>} \cup {<<n>> : n \in (0 - 1)..MaxPage}]

\* size is the page size that was in effect.
NoResult ==
  [kind |-> "none", keys |-> {}, count |-> 0, size |-> 0, results |-> <<>>]

\* Serializer.serialize(record, keys) and sanitize: the keys of the list
\* whose value in the record is not null. Serializer.user lists the email;
\* Serializer.profile lists the id and the columns of the profile, not the
\* link to the user (categories is an array, never null).
Serializer_user(user) == {key \in {"email"} : user[key] # 0}
Serializer_profile(profile) ==
  {"id", "categories"} \cup {key \in {"username"} : profile[key] # 0}

\* return { ...serializedProfile, ...serializedUser }
UserProfile_object(profile, user) ==
  [NoResult EXCEPT !.kind = "object",
                   !.keys = Serializer_profile(profile)
                              \cup Serializer_user(user)]

VARIABLES
  Users,          \* xata.db.Users: id -> row
  Profiles,       \* xata.db.Profiles: id -> row
  nextUserId,     \* ids the store has handed out so far (ids are never reused)
  nextProfileId,
  call,           \* per request in flight: the running call and its locals
  env             \* process.env: which JWT secret keys are defined

vars == <<Users, Profiles, nextUserId, nextProfileId, call, env>>

\* The locals of a call that has not started.
Idle ==
  [op |-> "none", pc |-> "idle", id |-> 0, value |-> NoValue,
   hashedPassword |-> 0, userId |-> 0, user |-> 0,
   userCopy |-> NoUser, profileCopy |-> NoProfile,
   outcome |-> "none", profile |-> 0,
   components |-> [i \in {0, 1} |-> 0],
   created |-> {}, mainLink |-> 0,
   preUser |-> NoUser, preProfile |-> NoProfile, did |-> {},
   route |-> "none", header |-> NoHeader, cookie |-> NoToken,
   auth |-> NoAuth, badKeys |-> {}, preStore |-> <<>>,
   status |-> 0, body |-> [kind |-> "none", keys |-> {}],
   jwtAccessChanged |-> NoToken,
   issued |-> [access |-> NoToken, refresh |-> NoToken],
   query |-> NoQuery, url |-> NoQuery, parsed |-> NoQuery,
   data |-> NoValue, update |-> FALSE, segregated |-> <<>>,
   values |-> <<>>, serializedComponents |-> <<>>,
   collectionsToUpdate |-> <<>>, result |-> NoResult,
   pagination |-> NoPagination,
   updatedComponents |-> {}, deletedComponents |-> {},
   operations |-> <<>>, operationOptions |-> <<>>, results |-> <<>>,
   operationID |-> 0, added |-> <<>>, removed |-> <<>>, removedIds |-> {},
   ran |-> <<>>]

\* An empty store, no request in flight.
InitStore ==
  /\ Users = [u \in UserIds |-> NoUser]
  /\ Profiles = [i \in ProfileIds |-> NoProfile]
  /\ nextUserId = 1
  /\ nextProfileId = 1
  /\ call = [p \in Procs |-> Idle]

\* The deployment defines both JWT secret keys.
Init ==
  /\ InitStore
  /\ env = [JWT_ACCESS_SECRET_KEY |-> TRUE, JWT_REFRESH_SECRET_KEY |-> TRUE]

Free(p) == call[p].pc = "idle"

\* call' with the locals of p changed to c
Set(p, c) == call' = [call EXCEPT ![p] = c]

\* The call of p ends: with a result (outcome "returned") or with an error.
End(c, outcome) == [c EXCEPT !.pc = "done", !.outcome = outcome]

\* ------------------------------------------------- UserProfile.create
\* Entry: the password is hashed, then Users.create is awaited.
CallCreate(c, value) ==
  [c EXCEPT !.op = "create", !.pc = "create.Users.create", !.value = value,
            !.hashedPassword = Hash(value.password)]

\* The store has ids left for one more User and one more Profile.
CanCreate == nextUserId <= MaxRecs /\ nextProfileId <= MaxRecs

UserProfile_create(p) ==
  /\ Free(p)
  /\ CanCreate
  /\ \E value \in CreateValues : Set(p, CallCreate(Idle, value))
  /\ UNCHANGED <<env, Users, Profiles, nextUserId, nextProfileId>>

\* xata.db.Users.create({email, password: hashedPassword}); a throw leaves
\* the try block not yet entered, so the error reaches the caller as it is.
\* (A store that has handed out its last id only throws.)
UserProfile_create_User(p) ==
  LET c == call[p] IN
  /\ c.pc = "create.Users.create"
  /\ \/ /\ nextUserId <= MaxRecs
        /\ Users' = [Users EXCEPT ![nextUserId] =
                       [ex |-> TRUE, email |-> c.value.email,
                        password |-> c.hashedPassword]]
        /\ nextUserId' = nextUserId + 1
        /\ Set(p, [c EXCEPT !.pc = "create.Profiles.create",
                            !.user = nextUserId,
                            !.created = @ \cup {<<"Users", nextUserId>>}])
     \/ /\ Set(p, End(c, "Error"))
        /\ UNCHANGED <<Users, nextUserId>>
  /\ UNCHANGED <<env, Profiles, nextProfileId>>

\* xata.db.Profiles.create({...profileValues, categories: [], user}), then
\* the check of profile.id and profile.user.id; a throw goes to the catch.
\* The record the store returns is the row it wrote.
UserProfile_create_Profile(p) ==
  LET c == call[p]
      profile == [ex |-> TRUE, user |-> c.user,
                  username |-> c.value.username, categories |-> 0]
  IN
  /\ c.pc = "create.Profiles.create"
  /\ \/ /\ nextProfileId <= MaxRecs
        /\ Profiles' = [Profiles EXCEPT ![nextProfileId] = profile]
        /\ nextProfileId' = nextProfileId + 1
        /\ LET d == [c EXCEPT
                       !.profile = nextProfileId, !.mainLink = c.user,
                       !.did = @ \cup {"mainIssued"},
                       !.created = @ \cup {<<"Profiles", nextProfileId>>}]
           IN \* if (!profile.id || profile.user?.id !== user.id) throw
              IF profile.ex /\ profile.user = c.user
              THEN Set(p, [End(d, "returned") EXCEPT
                             !.result =
                                UserProfile_object(profile, Users[c.user])])
              ELSE Set(p, [d EXCEPT !.pc = "create.catch"])
     \/ /\ Set(p, [c EXCEPT !.pc = "create.catch", !.mainLink = c.user,
                            !.did = @ \cup {"mainIssued"}])
        /\ UNCHANGED <<Profiles, nextProfileId>>
  /\ UNCHANGED <<env, Users, nextUserId>>

\* catch: xata.db.Users.delete(user), then throw UserProfile.Error; when the
\* delete itself throws, that error leaves the catch block instead.
UserProfile_create_catch(p) ==
  LET c == call[p] IN
  /\ c.pc = "create.catch"
  /\ \/ /\ Users' = [Users EXCEPT ![c.user] = NoUser]
        /\ Set(p, [End(c, "UserProfileError") EXCEPT
                     !.did = @ \cup {"compensated"}])
     \/ /\ Set(p, [End(c, "Error") EXCEPT !.did = @ \cup {"deleteThrew"}])
        /\ UNCHANGED Users
  /\ UNCHANGED <<env, Profiles, nextUserId, nextProfileId>>

\* ------------------------------------------ UserProfile.update / delete
\* What the store holds for profile id and its user when a call starts
\* (history only: the code keeps its own copies, profileCopy and userCopy).
PreUser(id) ==
  IF Profiles[id].user \in UserIds THEN Users[Profiles[id].user] ELSE NoUser

\* Profiles.readOrThrow(id), the link check, and the optional hash: common
\* head of update and delete. A missing record or a failed read throws the
\* store's own Error; a profile without link throws UserProfile.Error.
ReadProfileCheck(p, from, to) ==
  LET c == call[p] IN
  /\ c.pc = from
  /\ \/ /\ Profiles[c.id].ex
        /\ IF Profiles[c.id].user = 0
           THEN Set(p, End(c, "UserProfileError"))
           ELSE Set(p, [c EXCEPT !.pc = to,
                          !.profileCopy = Profiles[c.id],
                          !.userId = Profiles[c.id].user,
                          !.hashedPassword =
                             IF c.value.password # 0
                             THEN Hash(c.value.password) ELSE 0])
     \/ Set(p, End(c, "Error"))
  /\ UNCHANGED <<env, Users, Profiles, nextUserId, nextProfileId>>

\* const userCopy = await xata.db.Users.readOrThrow(userId), before the try.
ReadUserCopy(p, from, to) ==
  LET c == call[p] IN
  /\ c.pc = from
  /\ \/ /\ Users[c.userId].ex
        /\ Set(p, [c EXCEPT !.pc = to, !.userCopy = Users[c.userId]])
     \/ Set(p, End(c, "Error"))
  /\ UNCHANGED <<env, Users, Profiles, nextUserId, nextProfileId>>

\* catch, first statement: const user = await Users.createOrUpdate(userCopy).
\* The record is written back under its own id, created again if it is gone.
CatchRestoreUser(p, from, to) ==
  LET c == call[p] IN
  /\ c.pc = from
  /\ \/ /\ Users' = [Users EXCEPT ![c.userId] = c.userCopy]
        /\ Set(p, [c EXCEPT !.pc = to, !.did = @ \cup {"userRestored"}])
     \/ /\ Set(p, End(c, "Error"))
        /\ UNCHANGED Users
  /\ UNCHANGED <<env, Profiles, nextUserId, nextProfileId>>

\* catch, second statement: Profiles.createOrUpdate({...profileCopy, user}),
\* then throw UserProfile.Error.
CatchRestoreProfile(p, from) ==
  LET c == call[p] IN
  /\ c.pc = from
  /\ \/ /\ Profiles' = [Profiles EXCEPT ![c.id] =
                          [c.profileCopy EXCEPT !.user = c.userId]]
        /\ Set(p, [End(c, "UserProfileError") EXCEPT
                     !.did = @ \cup {"compensated"}])
     \/ /\ Set(p, End(c, "Error"))
        /\ UNCHANGED Profiles
  /\ UNCHANGED <<env, Users, nextUserId, nextProfileId>>

\* A partial write: fields that are undefined in the request keep their value.
Merge(old, new) == IF new = 0 THEN old ELSE new

CallUpdate(c, id, value) ==
  [c EXCEPT !.op = "update", !.id = id, !.value = value,
            !.pc = "update.Profiles.readOrThrow",
            !.preProfile = Profiles[id], !.preUser = PreUser(id)]

UserProfile_update(p) ==
  /\ Free(p)
  /\ \E id \in ProfileIds, value \in PartialValues :
       Set(p, CallUpdate(Idle, id, value))
  /\ UNCHANGED <<env, Users, Profiles, nextUserId, nextProfileId>>

UserProfile_update_readProfile(p) ==
  ReadProfileCheck(p, "update.Profiles.readOrThrow", "update.Users.readOrThrow")

UserProfile_update_readUser(p) ==
  ReadUserCopy(p, "update.Users.readOrThrow", "update.Users.updateOrThrow")

\* try: Users.updateOrThrow({id: userId, email, password: hashedPassword}).
UserProfile_update_User(p) ==
  LET c == call[p] IN
  /\ c.pc = "update.Users.updateOrThrow"
  /\ \/ /\ Users[c.userId].ex
        /\ Users' = [Users EXCEPT ![c.userId] =
                       [ex |-> TRUE,
                        email |-> Merge(@.email, c.value.email),
                        password |-> Merge(@.password, c.hashedPassword)]]
        /\ Set(p, [c EXCEPT !.pc = "update.Profiles.updateOrThrow",
                            !.did = @ \cup {"userUpdated"}])
     \/ /\ Set(p, [c EXCEPT !.pc = "update.catch.Users"])
        /\ UNCHANGED Users
  /\ UNCHANGED <<env, Profiles, nextUserId, nextProfileId>>

\* try: delete value.email, value.password;
\*      Profiles.updateOrThrow({...value, id}); return.
UserProfile_update_Profile(p) ==
  LET c == call[p] IN
  /\ c.pc = "update.Profiles.updateOrThrow"
  /\ \/ /\ Profiles[c.id].ex
        /\ Profiles' = [Profiles EXCEPT ![c.id] =
                          [@ EXCEPT !.username = Merge(@, c.value.username)]]
        /\ Set(p, [End(c, "returned") EXCEPT !.profile = c.id,
                     !.did = @ \cup {"profileUpdated"},
                     !.result =
                        UserProfile_object(
                          [Profiles[c.id] EXCEPT
                             !.username = Merge(@, c.value.username)],
                          Users[c.userId])])
     \/ /\ Set(p, [c EXCEPT !.pc = "update.catch.Users",
                            !.did = @ \cup {"profileUpdateFailed"}])
        /\ UNCHANGED Profiles
  /\ UNCHANGED <<env, Users, nextUserId, nextProfileId>>

\* Mutant: the catch goes on without writing the User back.
UserProfile_update_catch_User_nowrite(p) ==
  LET c == call[p] IN
  /\ c.pc = "update.catch.Users"
  /\ Set(p, [c EXCEPT !.pc = "update.catch.Profiles",
                      !.did = @ \cup {"userRestored"}])
  /\ UNCHANGED <<env, Users, Profiles, nextUserId, nextProfileId>>

UserProfile_update_catch_User(p) ==
  CatchRestoreUser(p, "update.catch.Users", "update.catch.Profiles")

UserProfile_update_catch_Profile(p) ==
  CatchRestoreProfile(p, "update.catch.Profiles")

CallDelete(c, id) ==
  [c EXCEPT !.op = "delete", !.id = id, !.pc = "delete.Profiles.readOrThrow",
            !.preProfile = Profiles[id], !.preUser = PreUser(id)]

UserProfile_delete(p) ==
  /\ Free(p)
  /\ \E id \in ProfileIds : Set(p, CallDelete(Idle, id))
  /\ UNCHANGED <<env, Users, Profiles, nextUserId, nextProfileId>>

UserProfile_delete_readProfile(p) ==
  ReadProfileCheck(p, "delete.Profiles.readOrThrow", "delete.Users.readOrThrow")

UserProfile_delete_readUser(p) ==
  ReadUserCopy(p, "delete.Users.readOrThrow", "delete.Profiles.deleteOrThrow")

\* Mutant: the Profile is not deleted, the User is.
UserProfile_delete_Profile_skipped(p) ==
  LET c == call[p] IN
  /\ c.pc = "delete.Profiles.deleteOrThrow"
  /\ Set(p, [c EXCEPT !.pc = "delete.Users.deleteOrThrow"])
  /\ UNCHANGED <<env, Users, Profiles, nextUserId, nextProfileId>>

\* try: const profile = await Profiles.deleteOrThrow(id).
UserProfile_delete_Profile(p) ==
  LET c == call[p] IN
  /\ c.pc = "delete.Profiles.deleteOrThrow"
  /\ \/ /\ Profiles[c.id].ex
        /\ Profiles' = [Profiles EXCEPT ![c.id] = NoProfile]
        /\ Set(p, [c EXCEPT !.pc = "delete.Users.deleteOrThrow",
                            !.did = @ \cup {"profileDeleted"}])
     \/ /\ Set(p, [c EXCEPT !.pc = "delete.catch.Users"])
        /\ UNCHANGED Profiles
  /\ UNCHANGED <<env, Users, nextUserId, nextProfileId>>

\* try: const user = await Users.deleteOrThrow(userId); return.
UserProfile_delete_User(p) ==
  LET c == call[p] IN
  /\ c.pc = "delete.Users.deleteOrThrow"
  /\ \/ /\ Users[c.userId].ex
        /\ Users' = [Users EXCEPT ![c.userId] = NoUser]
        /\ Set(p, [End(c, "returned") EXCEPT !.profile = c.id,
                     !.did = @ \cup {"userDeleted"},
                     !.result =
                        UserProfile_object(c.profileCopy, Users[c.userId])])
     \/ /\ Set(p, [c EXCEPT !.pc = "delete.catch.Users",
                            !.did = @ \cup {"userDeleteFailed"}])
        /\ UNCHANGED Users
  /\ UNCHANGED <<env, Profiles, nextUserId, nextProfileId>>

UserProfile_delete_catch_User(p) ==
  CatchRestoreUser(p, "delete.catch.Users", "delete.catch.Profiles")

\* Mutant: the catch throws UserProfile.Error without re-creating the Profile.
UserProfile_delete_catch_Profile_nowrite(p) ==
  LET c == call[p] IN
  /\ c.pc = "delete.catch.Profiles"
  /\ Set(p, [End(c, "UserProfileError") EXCEPT
               !.did = @ \cup {"compensated"}])
  /\ UNCHANGED <<env, Users, Profiles, nextUserId, nextProfileId>>

UserProfile_delete_catch_Profile(p) ==
  CatchRestoreProfile(p, "delete.catch.Profiles")

\* The caller has the result or the error of the call; nothing of the call
\* outlives it.
Return(p) ==
  /\ \/ call[p].pc = "done" /\ call[p].route = "none"
     \/ call[p].pc = "responded"
  /\ Set(p, Idle)
  /\ UNCHANGED <<env, Users, Profiles, nextUserId, nextProfileId>>

\* The steps of the three UserProfile writers.
UserProfileStep(p) ==
  \/ UserProfile_create(p)
  \/ UserProfile_create_User(p)
  \/ UserProfile_create_Profile(p)
  \/ UserProfile_create_catch(p)
  \/ UserProfile_update(p)
  \/ UserProfile_update_readProfile(p)
  \/ UserProfile_update_readUser(p)
  \/ UserProfile_update_User(p)
  \/ UserProfile_update_Profile(p)
  \/ UserProfile_update_catch_User(p)
  \/ UserProfile_update_catch_Profile(p)
  \/ UserProfile_delete(p)
  \/ UserProfile_delete_readProfile(p)
  \/ UserProfile_delete_readUser(p)
  \/ UserProfile_delete_Profile(p)
  \/ UserProfile_delete_User(p)
  \/ UserProfile_delete_catch_User(p)
  \/ UserProfile_delete_catch_Profile(p)
  \/ Return(p)

\* One request at a time: the calls of a sequence run to completion.
Next == UserProfileStep(1)

Spec == Init /\ [][Next]_vars

\* Two requests at a time, each one call of update or delete. No lock is
\* taken and every store call is awaited, so the calls of the two requests
\* interleave at each await.
PairStep(p) ==
  \/ UserProfile_update(p)
  \/ UserProfile_update_readProfile(p)
  \/ UserProfile_update_readUser(p)
  \/ UserProfile_update_User(p)
  \/ UserProfile_update_Profile(p)
  \/ UserProfile_update_catch_User(p)
  \/ UserProfile_update_catch_Profile(p)
  \/ UserProfile_delete(p)
  \/ UserProfile_delete_readProfile(p)
  \/ UserProfile_delete_readUser(p)
  \/ UserProfile_delete_Profile(p)
  \/ UserProfile_delete_User(p)
  \/ UserProfile_delete_catch_User(p)
  \/ UserProfile_delete_catch_Profile(p)

NextPair ==
  \/ PairStep(1)
  \/ PairStep(2)

\* The store after UserProfile.create({email: 1, password}) has returned:
\* Profile 1 linked to User 1.
InitPair ==
  /\ Users = [u \in UserIds |->
                IF u = 1
                THEN [ex |-> TRUE, email |-> 1, password |-> Hash(1)]
                ELSE NoUser]
  /\ Profiles = [i \in ProfileIds |->
                   IF i = 1
                   THEN [ex |-> TRUE, user |-> 1, username |-> 0,
                         categories |-> 0]
                   ELSE NoProfile]
  /\ nextUserId = 2
  /\ nextProfileId = 2
  /\ call = [p \in Procs |-> Idle]
  /\ env = [JWT_ACCESS_SECRET_KEY |-> TRUE, JWT_REFRESH_SECRET_KEY |-> TRUE]

SpecPair == InitPair /\ [][NextPair]_vars

\* --------------------------------------------------- Transaction.create
\* Transaction.configs.UserProfile: collections [Profiles, Users],
\* fromCollectionID 0, loadCollectionIDs [1], usingKeys ["user"].
\* values[0] are the Profiles fields (username, categories), values[1] the
\* Users fields (email, password) as the caller passes them.
TxValues ==
  [email : Values, password : {Hash(w) : w \in Passwords},
   username : OptNames, categories : {0, 1}]

\* Transaction.verify.byKeys on the Users component: values[1][key] ===
\* components[1][key] for the keys email and password, both strings.
ByKeysUsers(values, row) ==
  /\ values.email = row.email
  /\ values.password = row.password

\* Transaction.verify.byKeys on the Profiles component: for every key of
\* values[0], values[0][key] === components[0][key]. username is a string;
\* categories is an array, and the array the store returns is never the
\* array that was passed, so === is false whenever the key is present.
ByKeysProfiles(values, row) ==
  /\ (values.username # 0 => values.username = row.username)
  /\ values.categories = 0

Transaction_create(p) ==
  /\ Free(p)
  /\ CanCreate
  /\ \E values \in TxValues :
       Set(p, [Idle EXCEPT !.op = "Transaction.create",
                           !.pc = "tx.create.secondary", !.value = values])
  /\ UNCHANGED <<env, Users, Profiles, nextUserId, nextProfileId>>

\* components[1] = await collections[1].create(values[1]); the link is put
\* in mainComponentBuild; byKeys on the secondary component.
Transaction_create_secondary(p) ==
  LET c == call[p]
      row == [ex |-> TRUE, email |-> c.value.email,
              password |-> c.value.password]
  IN
  /\ c.pc = "tx.create.secondary"
  /\ \/ /\ Users' = [Users EXCEPT ![nextUserId] = row]
        /\ nextUserId' = nextUserId + 1
        /\ Set(p, [c EXCEPT
                     !.pc = IF ByKeysUsers(c.value, row)
                            THEN "tx.create.main" ELSE "tx.create.catch.0",
                     !.components = [@ EXCEPT ![1] = nextUserId],
                     !.user = nextUserId,
                     !.created = @ \cup {<<"Users", nextUserId>>}])
     \/ /\ Set(p, [c EXCEPT !.pc = "tx.create.catch.0"])
        /\ UNCHANGED <<Users, nextUserId>>
  /\ UNCHANGED <<env, Profiles, nextProfileId>>

\* components[0] = await collections[0].create(mainComponentBuild); byKeys on
\* the main component; return components.
Transaction_create_main(p) ==
  LET c == call[p]
      row == [ex |-> TRUE, user |-> c.user, username |-> c.value.username,
              categories |-> c.value.categories]
  IN
  /\ c.pc = "tx.create.main"
  /\ \/ /\ Profiles' = [Profiles EXCEPT ![nextProfileId] = row]
        /\ nextProfileId' = nextProfileId + 1
        /\ LET d == [c EXCEPT
                       !.components = [@ EXCEPT ![0] = nextProfileId],
                       !.profile = nextProfileId, !.mainLink = c.user,
                       !.created = @ \cup {<<"Profiles", nextProfileId>>}]
           IN IF ByKeysProfiles(c.value, row)
              THEN Set(p, [End(d, "returned") EXCEPT
                             !.did = @ \cup {"mainIssued"}])
              ELSE Set(p, [d EXCEPT !.pc = "tx.create.catch.0",
                             !.did = @ \cup {"mainIssued", "checkFailed"}])
     \/ /\ Set(p, [c EXCEPT !.pc = "tx.create.catch.0", !.mainLink = c.user,
                            !.did = @ \cup {"mainIssued"}])
        /\ UNCHANGED <<Profiles, nextProfileId>>
  /\ UNCHANGED <<env, Users, nextUserId>>

\* Mutant: the revert leaves the main component in the store.
Transaction_create_catch_0_skipped(p) ==
  LET c == call[p] IN
  /\ c.pc = "tx.create.catch.0"
  /\ Set(p, [c EXCEPT !.pc = "tx.create.catch.1"])
  /\ UNCHANGED <<env, Users, Profiles, nextUserId, nextProfileId>>

\* catch, collectionID = 0: if (components[0]) await Profiles.delete(...).
Transaction_create_catch_0(p) ==
  LET c == call[p] IN
  /\ c.pc = "tx.create.catch.0"
  /\ IF c.components[0] = 0
     THEN /\ Set(p, [c EXCEPT !.pc = "tx.create.catch.1"])
          /\ UNCHANGED Profiles
     ELSE \/ /\ Profiles' = [Profiles EXCEPT ![c.components[0]] = NoProfile]
             /\ Set(p, [c EXCEPT !.pc = "tx.create.catch.1"])
          \/ /\ Set(p, [End(c, "Error") EXCEPT
                          !.did = @ \cup {"deleteThrew"}])
             /\ UNCHANGED Profiles
  /\ UNCHANGED <<env, Users, nextUserId, nextProfileId>>

\* catch, collectionID = 1: if (components[1]) await Users.delete(...);
\* then throw error.
Transaction_create_catch_1(p) ==
  LET c == call[p] IN
  /\ c.pc = "tx.create.catch.1"
  /\ IF c.components[1] = 0
     THEN /\ Set(p, End(c, "Error"))
          /\ UNCHANGED Users
     ELSE \/ /\ Users' = [Users EXCEPT ![c.components[1]] = NoUser]
             /\ Set(p, [End(c, "Error") EXCEPT
                          !.did = @ \cup {"compensated"}])
          \/ /\ Set(p, [End(c, "Error") EXCEPT
                          !.did = @ \cup {"deleteThrew"}])
             /\ UNCHANGED Users
  /\ UNCHANGED <<env, Profiles, nextUserId, nextProfileId>>

\* ------------------------------- APIHandler.handleCollections.create
\* APIHandler.options.UserProfile has the same collections and map; the
\* values come validated and hashed from APIHandler.create. No catch here.
APIHandler_handleCollections_create(p) ==
  /\ Free(p)
  /\ CanCreate
  /\ \E values \in TxValues :
       Set(p, [Idle EXCEPT !.op = "handleCollections.create",
                           !.pc = "hc.create.secondary", !.value = values])
  /\ UNCHANGED <<env, Users, Profiles, nextUserId, nextProfileId>>

\* components[1] = await this.collections[1].create(values[1]);
\* completeData.user = components[1].
APIHandler_handleCollections_create_secondary(p) ==
  LET c == call[p] IN
  /\ c.pc = "hc.create.secondary"
  /\ \/ /\ Users' = [Users EXCEPT ![nextUserId] =
                       [ex |-> TRUE, email |-> c.value.email,
                        password |-> c.value.password]]
        /\ nextUserId' = nextUserId + 1
        /\ Set(p, [c EXCEPT !.pc = "hc.create.main",
                     !.components = [@ EXCEPT ![1] = nextUserId],
                     !.user = nextUserId,
                     !.created = @ \cup {<<"Users", nextUserId>>}])
     \/ /\ Set(p, End(c, "Error"))
        /\ UNCHANGED <<Users, nextUserId>>
  /\ UNCHANGED <<env, Profiles, nextProfileId>>

\* Mutant: the main component is created from values[0], without the link.
APIHandler_handleCollections_create_main_unlinked(p) ==
  LET c == call[p] IN
  /\ c.pc = "hc.create.main"
  /\ Profiles' = [Profiles EXCEPT ![nextProfileId] =
                    [ex |-> TRUE, user |-> 0,
                     username |-> c.value.username,
                     categories |-> c.value.categories]]
  /\ nextProfileId' = nextProfileId + 1
  /\ Set(p, [End(c, "returned") EXCEPT
               !.components = [@ EXCEPT ![0] = nextProfileId],
               !.profile = nextProfileId, !.mainLink = 0,
               !.did = @ \cup {"mainIssued"},
               !.created = @ \cup {<<"Profiles", nextProfileId>>}])
  /\ UNCHANGED <<env, Users, nextUserId>>

\* components[0] = await this.collections[0].create(completeData); return.
APIHandler_handleCollections_create_main(p) ==
  LET c == call[p] IN
  /\ c.pc = "hc.create.main"
  /\ \/ /\ Profiles' = [Profiles EXCEPT ![nextProfileId] =
                          [ex |-> TRUE, user |-> c.user,
                           username |-> c.value.username,
                           categories |-> c.value.categories]]
        /\ nextProfileId' = nextProfileId + 1
        /\ Set(p, [End(c, "returned") EXCEPT
                     !.components = [@ EXCEPT ![0] = nextProfileId],
                     !.profile = nextProfileId, !.mainLink = c.user,
                     !.did = @ \cup {"mainIssued"},
                     !.created = @ \cup {<<"Profiles", nextProfileId>>}])
     \/ /\ Set(p, [End(c, "Error") EXCEPT !.mainLink = c.user,
                     !.did = @ \cup {"mainIssued"}])
        /\ UNCHANGED <<Profiles, nextProfileId>>
  /\ UNCHANGED <<env, Users, nextUserId>>

\* ------------------------------- APIRouter.handleCollections.create
\* loadCollectionIDs.forEach(async ...) calls collections[1].create and does
\* not wait for it; collections[0].create(completeData) is called next, with
\* completeData as it is then: { ...values[0] }, the link not yet assigned.
APIRouter_handleCollections_create(p) ==
  /\ Free(p)
  /\ CanCreate
  /\ \E values \in TxValues :
       Set(p, [Idle EXCEPT !.op = "APIRouter.handleCollections.create",
                           !.pc = "router.create.main", !.value = values])
  /\ UNCHANGED <<env, Users, Profiles, nextUserId, nextProfileId>>

\* The callback of forEach goes on when the store has answered, before or
\* after handleCollections.create has returned: components[1] = the record,
\* completeData.user = components[1]. A throw is a rejection of the promise
\* forEach dropped: nothing catches it.
APIRouter_handleCollections_create_secondary(p) ==
  LET c == call[p] IN
  /\ c.op = "APIRouter.handleCollections.create"
  /\ c.pc \in {"router.create.main", "done"}
  /\ "secondaryEnded" \notin c.did
  /\ \/ /\ Users' = [Users EXCEPT ![nextUserId] =
                       [ex |-> TRUE, email |-> c.value.email,
                        password |-> c.value.password]]
        /\ nextUserId' = nextUserId + 1
        /\ Set(p, [c EXCEPT
                     !.components = [@ EXCEPT ![1] = nextUserId],
                     !.user = nextUserId,
                     !.did = @ \cup {"secondaryEnded"},
                     !.created = @ \cup {<<"Users", nextUserId>>}])
     \/ /\ Set(p, [c EXCEPT !.did = @ \cup {"secondaryEnded"}])
        /\ UNCHANGED <<Users, nextUserId>>
  /\ UNCHANGED <<env, Profiles, nextProfileId>>

\* components[0] = await this.collections[0].create(completeData); return
\* components. History: "secondaryHeld" when components[1] is assigned at
\* the return.
APIRouter_handleCollections_create_main(p) ==
  LET c == call[p] IN
  /\ c.pc = "router.create.main"
  /\ \/ /\ Profiles' = [Profiles EXCEPT ![nextProfileId] =
                          [ex |-> TRUE, user |-> 0,
                           username |-> c.value.username,
                           categories |-> c.value.categories]]
        /\ nextProfileId' = nextProfileId + 1
        /\ Set(p, [End(c, "returned") EXCEPT
                     !.components = [@ EXCEPT ![0] = nextProfileId],
                     !.profile = nextProfileId, !.mainLink = 0,
                     !.did = @ \cup {"mainIssued"}
                               \cup IF c.components[1] # 0
                                    THEN {"secondaryHeld"} ELSE {},
                     !.created = @ \cup {<<"Profiles", nextProfileId>>}])
     \/ /\ Set(p, [End(c, "Error") EXCEPT !.did = @ \cup {"mainIssued"}])
        /\ UNCHANGED <<Profiles, nextProfileId>>
  /\ UNCHANGED <<env, Users, nextUserId>>

\* The multi-table creates, one call at a time.
NextCreate ==
  \/ UserProfile_create(1)
  \/ UserProfile_create_User(1)
  \/ UserProfile_create_Profile(1)
  \/ UserProfile_create_catch(1)
  \/ Transaction_create(1)
  \/ Transaction_create_secondary(1)
  \/ Transaction_create_main(1)
  \/ Transaction_create_catch_0(1)
  \/ Transaction_create_catch_1(1)
  \/ APIHandler_handleCollections_create(1)
  \/ APIHandler_handleCollections_create_secondary(1)
  \/ APIHandler_handleCollections_create_main(1)
  \/ APIRouter_handleCollections_create(1)
  \/ APIRouter_handleCollections_create_secondary(1)
  \/ APIRouter_handleCollections_create_main(1)
  \/ Return(1)

SpecCreate == Init /\ [][NextCreate]_vars

\* ------------------------------------------------------- TokenGenerator
\* TokenGenerator.verify.AccessToken: throws when the key is undefined or
\* the token was not signed with it (or has expired).
TokenGenerator_verify_AccessToken(token) ==
  env.JWT_ACCESS_SECRET_KEY /\ token.kind = "access"

TokenGenerator_verify_RefreshToken(token) ==
  env.JWT_REFRESH_SECRET_KEY /\ token.kind = "refresh"

\* Mutant: the new access token is signed with an empty payload.
TokenGenerator_generate_AccessToken_nosub(sub) ==
  [kind |-> "access", sub |-> 0]

\* TokenGenerator.generate.AccessToken({sub}), the key being defined.
TokenGenerator_generate_AccessToken(sub) ==
  [kind |-> "access", sub |-> sub]

\* Mutant: the refresh token is signed with an empty payload.
TokenGenerator_generate_RefreshToken_nosub(sub) ==
  [kind |-> "refresh", sub |-> 0]

\* TokenGenerator.generate.RefreshToken({sub}), the key being defined.
TokenGenerator_generate_RefreshToken(sub) ==
  [kind |-> "refresh", sub |-> sub]

\* ------------------------------------------------------------------ Auth
\* Mutant: any scheme is accepted in the Authorization header.
Auth_getTokens_anyScheme(header, cookie) ==
  /\ header.token # NoToken
  /\ cookie # NoToken

\* Auth.getTokens: auth && auth[0] === "JWT" && auth[1] && refresh.
Auth_getTokens(header, cookie) ==
  /\ header.scheme = "JWT"
  /\ header.token # NoToken
  /\ cookie # NoToken

\* A token signed with one of the server's keys carries no subject or the id
\* of a profile the store has handed out: the routes sign {sub: profile id}.
Signed(token) ==
  token.kind \in {"access", "refresh"} => token.sub < nextProfileId

\* Auth.authenticate throws Auth.Error: the route's catch has the error.
AuthFail(c) ==
  [End(c, "AuthError") EXCEPT !.auth = [@ EXCEPT !.done = TRUE]]

\* Auth.authenticate returns {profile, access?}.
AuthOk(c, profile, access) ==
  [c EXCEPT !.pc = "authenticated",
            !.auth = [@ EXCEPT !.done = TRUE, !.ok = TRUE,
                               !.profile = profile, !.access = access]]

\* Auth.authenticate up to the return of getProfile.useAccessToken: the
\* request's header and cookie are read; useAccessToken gives the Profile
\* whose id is the subject of a verified access token, undefined when the
\* token does not verify, has no string subject, the record is missing or
\* the read throws.
Auth_authenticate(p) ==
  LET c == call[p] IN
  /\ c.pc = "Auth.authenticate"
  /\ \E header \in {h \in Headers : Signed(h.token)},
        cookie \in {t \in Cookies : Signed(t)} :
       LET d == [c EXCEPT !.header = header, !.cookie = cookie]
           subject == header.token.sub
       IN
       \/ /\ ~Auth_getTokens(header, cookie)
          /\ Set(p, AuthFail(d))
       \/ /\ Auth_getTokens(header, cookie)
          /\ \/ /\ TokenGenerator_verify_AccessToken(header.token)
                /\ subject # 0
                /\ Profiles[subject].ex
                /\ Set(p, AuthOk([d EXCEPT !.auth.accessProfile = subject],
                                 subject, NoToken))
             \/ /\ ~(/\ TokenGenerator_verify_AccessToken(header.token)
                     /\ subject # 0
                     /\ Profiles[subject].ex)
                /\ Set(p, [d EXCEPT !.pc = "Auth.useRefreshToken"])
             \/ /\ TokenGenerator_verify_AccessToken(header.token)
                /\ subject # 0
                /\ Set(p, [d EXCEPT !.pc = "Auth.useRefreshToken",
                                    !.auth.readThrew = TRUE])
  /\ UNCHANGED <<env, Users, Profiles, nextUserId, nextProfileId>>

\* Mutant: authenticate lets the request through when useRefreshToken throws.
Auth_useRefreshToken_failopen(p) ==
  LET c == call[p] IN
  /\ c.pc = "Auth.useRefreshToken"
  /\ Set(p, [c EXCEPT !.pc = "authenticated",
                      !.auth = [@ EXCEPT !.done = TRUE]])
  /\ UNCHANGED <<env, Users, Profiles, nextUserId, nextProfileId>>

\* Auth.getProfile.useRefreshToken, and the catch of authenticate around it:
\* verify, a string subject, generate.AccessToken, Profiles.read.
Auth_useRefreshToken(p) ==
  LET c == call[p]
      subject == c.cookie.sub
  IN
  /\ c.pc = "Auth.useRefreshToken"
  /\ IF ~TokenGenerator_verify_RefreshToken(c.cookie) \/ subject = 0
        \/ ~env.JWT_ACCESS_SECRET_KEY
     THEN Set(p, AuthFail(c))
     ELSE LET access == TokenGenerator_generate_AccessToken(subject)
              d == [c EXCEPT !.auth.generated = access]
          IN \/ /\ Profiles[subject].ex
                /\ Set(p, AuthOk(d, subject, access))
             \/ /\ ~Profiles[subject].ex
                /\ Set(p, AuthFail(d))
             \/ Set(p, AuthFail([d EXCEPT !.auth.readThrew = TRUE]))
  /\ UNCHANGED <<env, Users, Profiles, nextUserId, nextProfileId>>

\* Mutant: the response never carries the header.
Auth_handleResponse_unset(auth) == NoToken

\* Auth.handleResponse: the value of the "jwt-access-changed" header of the
\* response (NoToken: not set).
Auth_handleResponse(auth) ==
  IF auth.access # NoToken THEN auth.access ELSE NoToken

\* ------------------------------------------------------------ the routes
ProtectedRoutes ==
  {"GET /profiles", "GET /profiles/{id}", "PUT /profiles/{id}",
   "DELETE /profiles/{id}"}

\* A request enters a route handler (history: the store as it is now).
Enter(route, pc) ==
  [Idle EXCEPT !.route = route, !.pc = pc,
               !.preStore = <<Users, Profiles>>]

\* authenticate has returned: the handler does not look at the tokens again.
Handle(c) == [c EXCEPT !.header = NoHeader, !.cookie = NoToken]

profiles_GET(p) ==
  /\ Free(p)
  /\ Set(p, Enter("GET /profiles", "Auth.authenticate"))
  /\ UNCHANGED <<env, Users, Profiles, nextUserId, nextProfileId>>

profiles_POST(p) ==
  /\ Free(p)
  /\ Set(p, Enter("POST /profiles", "POST.validate"))
  /\ UNCHANGED <<env, Users, Profiles, nextUserId, nextProfileId>>

profiles_id_GET(p) ==
  /\ Free(p)
  /\ Set(p, Enter("GET /profiles/{id}", "Auth.authenticate"))
  /\ UNCHANGED <<env, Users, Profiles, nextUserId, nextProfileId>>

profiles_id_PUT(p) ==
  /\ Free(p)
  /\ Set(p, Enter("PUT /profiles/{id}", "Auth.authenticate"))
  /\ UNCHANGED <<env, Users, Profiles, nextUserId, nextProfileId>>

profiles_id_DELETE(p) ==
  /\ Free(p)
  /\ Set(p, Enter("DELETE /profiles/{id}", "Auth.authenticate"))
  /\ UNCHANGED <<env, Users, Profiles, nextUserId, nextProfileId>>

\* POST /profiles: Validator.validate.userProfile(data); if (error) throw
\* error; otherwise UserProfile.create(value) is called.
profiles_POST_validate(p) ==
  LET c == call[p] IN
  /\ c.pc = "POST.validate"
  /\ \/ \E keys \in (SUBSET PayloadKeys) \ {{}} :
          Set(p, [End(c, "ValidationError") EXCEPT !.badKeys = keys])
     \/ /\ CanCreate
        /\ \E value \in CreateValues : Set(p, CallCreate(c, value))
  /\ UNCHANGED <<env, Users, Profiles, nextUserId, nextProfileId>>

\* PUT /profiles/{id}: Validator.validate.partialUserProfile(data); if
\* (error) throw error; otherwise UserProfile.update(id, value) is called.
profiles_id_PUT_validate(p) ==
  LET c == call[p] IN
  /\ c.pc = "authenticated"
  /\ c.route = "PUT /profiles/{id}"
  /\ \/ \E keys \in (SUBSET PayloadKeys) \ {{}} :
          Set(p, [End(Handle(c), "ValidationError") EXCEPT !.badKeys = keys])
     \/ \E id \in ProfileIds, value \in PartialValues :
          Set(p, CallUpdate(Handle(c), id, value))
  /\ UNCHANGED <<env, Users, Profiles, nextUserId, nextProfileId>>

\* DELETE /profiles/{id}: UserProfile.delete(id) is called.
profiles_id_DELETE_delete(p) ==
  LET c == call[p] IN
  /\ c.pc = "authenticated"
  /\ c.route = "DELETE /profiles/{id}"
  /\ \E id \in ProfileIds : Set(p, CallDelete(Handle(c), id))
  /\ UNCHANGED <<env, Users, Profiles, nextUserId, nextProfileId>>

\* GET /profiles: QueryString.define(request.url, template), which throws
\* QueryString.Error when the URL cannot be read.
QueryString_define(p) ==
  LET c == call[p] IN
  /\ c.pc = "authenticated"
  /\ c.route = "GET /profiles"
  /\ \/ Set(p, [Handle(c) EXCEPT !.pc = "getAll"])
     \/ Set(p, End(Handle(c), "QueryStringError"))
  /\ UNCHANGED <<env, Users, Profiles, nextUserId, nextProfileId>>

\* UserProfile.getAll(query): Profiles.getMany and a Users.read per profile;
\* reads only. A throw of the store reaches the route as it is.
UserProfile_getAll(p) ==
  LET c == call[p]
      d == [c EXCEPT !.op = "getAll"]
  IN
  /\ c.pc = "getAll"
  /\ \/ Set(p, End(d, "returned"))
     \/ Set(p, End(d, "Error"))
  /\ UNCHANGED <<env, Users, Profiles, nextUserId, nextProfileId>>

\* ---------------------------------------------------- UserProfile.get
CallGet(c, id) ==
  [c EXCEPT !.op = "get", !.id = id, !.pc = "get.Profiles.readOrThrow",
            !.preProfile = Profiles[id], !.preUser = PreUser(id)]

\* GET /profiles/{id}: UserProfile.get(id) is called.
UserProfile_get(p) ==
  LET c == call[p] IN
  /\ c.pc = "authenticated"
  /\ c.route = "GET /profiles/{id}"
  /\ \E id \in ProfileIds : Set(p, CallGet(Handle(c), id))
  /\ UNCHANGED <<env, Users, Profiles, nextUserId, nextProfileId>>

\* const profile = await Profiles.readOrThrow(id): the store's own Error when
\* there is no such record or the read fails;
\* if (!profile.user) throw new UserProfile.Error.
UserProfile_get_readProfile(p) ==
  LET c == call[p] IN
  /\ c.pc = "get.Profiles.readOrThrow"
  /\ \/ /\ Profiles[c.id].ex
        /\ IF Profiles[c.id].user = 0
           THEN Set(p, End(c, "UserProfileError"))
           ELSE Set(p, [c EXCEPT !.pc = "get.Users.readOrThrow",
                                 !.userId = Profiles[c.id].user])
     \/ Set(p, End(c, "Error"))
  /\ UNCHANGED <<env, Users, Profiles, nextUserId, nextProfileId>>

\* const user = await Users.readOrThrow(profile.user); serialize; return.
UserProfile_get_readUser(p) ==
  LET c == call[p] IN
  /\ c.pc = "get.Users.readOrThrow"
  /\ \/ /\ Users[c.userId].ex
        /\ Set(p, [End(c, "returned") EXCEPT
                     !.profile = c.id,
                     !.result =
                        UserProfile_object(Profiles[c.id], Users[c.userId])])
     \/ Set(p, End(c, "Error"))
  /\ UNCHANGED <<env, Users, Profiles, nextUserId, nextProfileId>>

\* ------------------------------------------------------- the responses
\* POST /profiles signs the two tokens after UserProfile.create has returned;
\* generate throws TokenGenerator.Error when a key is undefined.
Thrown(c) ==
  IF c.route = "POST /profiles" /\ c.outcome = "returned"
     /\ ~(env.JWT_ACCESS_SECRET_KEY /\ env.JWT_REFRESH_SECRET_KEY)
  THEN "TokenGeneratorError"
  ELSE c.outcome

\* The status of the response: the try block's, or that of the first catch
\* clause (instanceof) of the route that takes the error.
Status(route, thrown) ==
  CASE thrown = "returned" ->
         IF route = "POST /profiles" THEN 201 ELSE 200
    [] thrown = "AuthError" /\ route \in ProtectedRoutes -> 401
    [] thrown = "ValidationError" /\ route = "POST /profiles" -> 400
    [] thrown = "UserProfileError"
         /\ route \in {"GET /profiles/{id}", "DELETE /profiles/{id}"} -> 404
    [] OTHER -> 500

\* The body: the serialized result, Validator.handleError's {error: {key:
\* message}} with a key per failing field, or handleError's message string.
Body(c, thrown) ==
  CASE thrown = "returned" -> [kind |-> "json", keys |-> {}]
    [] thrown = "ValidationError" /\ c.route = "POST /profiles" ->
         [kind |-> "errors", keys |-> c.badKeys]
    [] OTHER -> [kind |-> "message", keys |-> {}]

\* POST /profiles: payload = {sub: userProfile.id}; the access token goes in
\* the body ({...userProfile, access}), the refresh token in the httpOnly
\* "refresh" cookie. userProfile.id is the id of the Profile: Serializer.user
\* keeps only the email.
Issue(id) ==
  [access |-> TokenGenerator_generate_AccessToken(id),
   refresh |-> TokenGenerator_generate_RefreshToken(id)]

\* The route handler returns its NextResponse; the protected routes pass a
\* successful one through Auth.handleResponse.
Respond(p) ==
  LET c == call[p]
      thrown == Thrown(c)
  IN
  /\ c.pc = "done"
  /\ c.route # "none"
  /\ Set(p, [Handle(c) EXCEPT
               !.pc = "responded",
               !.outcome = thrown,
               !.status = Status(c.route, thrown),
               !.body = Body(c, thrown),
               !.jwtAccessChanged =
                  IF thrown = "returned" /\ c.route \in ProtectedRoutes
                  THEN Auth_handleResponse(c.auth) ELSE NoToken,
               !.issued = IF thrown = "returned" /\ c.route = "POST /profiles"
                          THEN Issue(c.profile) ELSE @])
  /\ UNCHANGED <<env, Users, Profiles, nextUserId, nextProfileId>>

\* The profile routes, one request at a time.
NextHttp ==
  \/ profiles_GET(1)
  \/ profiles_POST(1)
  \/ profiles_id_GET(1)
  \/ profiles_id_PUT(1)
  \/ profiles_id_DELETE(1)
  \/ Auth_authenticate(1)
  \/ Auth_useRefreshToken(1)
  \/ profiles_POST_validate(1)
  \/ profiles_id_PUT_validate(1)
  \/ profiles_id_DELETE_delete(1)
  \/ QueryString_define(1)
  \/ UserProfile_getAll(1)
  \/ UserProfile_get(1)
  \/ UserProfile_get_readProfile(1)
  \/ UserProfile_get_readUser(1)
  \/ UserProfile_create_User(1)
  \/ UserProfile_create_Profile(1)
  \/ UserProfile_create_catch(1)
  \/ UserProfile_update_readProfile(1)
  \/ UserProfile_update_readUser(1)
  \/ UserProfile_update_User(1)
  \/ UserProfile_update_Profile(1)
  \/ UserProfile_update_catch_User(1)
  \/ UserProfile_update_catch_Profile(1)
  \/ UserProfile_delete_readProfile(1)
  \/ UserProfile_delete_readUser(1)
  \/ UserProfile_delete_Profile(1)
  \/ UserProfile_delete_User(1)
  \/ UserProfile_delete_catch_User(1)
  \/ UserProfile_delete_catch_Profile(1)
  \/ Respond(1)
  \/ Return(1)

\* process.env may lack either JWT secret key.
InitHttp ==
  /\ InitStore
  /\ env \in [JWT_ACCESS_SECRET_KEY : BOOLEAN, JWT_REFRESH_SECRET_KEY : BOOLEAN]

SpecHttp == InitHttp /\ [][NextHttp]_vars

\* ----------------------------------------------------------- QueryString
Digits == <<"0", "1", "2", "3", "4", "5", "6", "7", "8", "9">>
IsDigit(ch) == \E i \in 1..10 : Digits[i] = ch
DigitValue(ch) == (CHOOSE i \in 1..10 : Digits[i] = ch) - 1

\* String(value) of a non-negative integer: its decimal digits.
RECURSIVE String(_)
String(n) ==
  IF n < 10 THEN <<Digits[n + 1]>>
  ELSE String(n \div 10) \o <<Digits[(n % 10) + 1]>>

\* Number(valueToConvert): 0 for the empty string, the value of a string of
\* digits, NaN otherwise.
NaN == 0 - 1
RECURSIVE DigitsValue(_)
DigitsValue(t) ==
  IF t = <<>> THEN 0
  ELSE 10 * DigitsValue(SubSeq(t, 1, Len(t) - 1)) + DigitValue(t[Len(t)])
Number(t) ==
  IF \A i \in 1..Len(t) : IsDigit(t[i]) THEN DigitsValue(t) ELSE NaN

\* URLSearchParams.toString: the separator is percent-encoded.
RECURSIVE Encode(_)
Encode(t) ==
  IF t = <<>> THEN <<>>
  ELSE (IF Head(t) = "," THEN <<"%", "2", "C">> ELSE <<Head(t)>>)
       \o Encode(Tail(t))

\* new URL(url).searchParams: percent-decoding.
RECURSIVE Decode(_)
Decode(t) ==
  IF t = <<>> THEN <<>>
  ELSE IF Len(t) >= 3 /\ SubSeq(t, 1, 3) = <<"%", "2", "C">>
       THEN <<",">> \o Decode(SubSeq(t, 4, Len(t)))
       ELSE <<Head(t)>> \o Decode(Tail(t))

\* value.reduce((pValue, cValue) => `${pValue},${cValue}`) of a non-empty
\* array: a one-element array reduces to its element.
RECURSIVE Join(_)
Join(arr) ==
  IF Len(arr) = 1 THEN arr[1]
  ELSE Join(SubSeq(arr, 1, Len(arr) - 1)) \o <<",">> \o arr[Len(arr)]

\* value.includes(",")
IncludesComma(t) == \E i \in 1..Len(t) : t[i] = ","

\* value.split(",")
RECURSIVE Split(_)
Split(t) ==
  IF ~IncludesComma(t) THEN <<t>>
  ELSE LET i == CHOOSE j \in 1..Len(t) :
                  t[j] = "," /\ \A k \in 1..(j - 1) : t[k] # ","
       IN <<SubSeq(t, 1, i - 1)>> \o Split(SubSeq(t, i + 1, Len(t)))

\* QueryString.defineURL(query, domain): a key whose value is undefined is
\* left out, any other value is stringified into the search parameters.
defineURL(query) ==
  [page |-> IF query.page = <<>> THEN <<>>
            ELSE <<Encode(String(query.page[1]))>>,
   search |-> IF query.search = <<>> THEN <<>>
              ELSE <<Encode(query.search[1])>>,
   categories |-> IF query.categories = <<>> THEN <<>>
                  ELSE <<Encode(Join(query.categories[1]))>>]

\* QueryString.define(url, template): a number key is converted with Number
\* (NaN gives undefined), a string key is taken as it is, an array key is
\* split when the value includes "," and is undefined otherwise.
define(url) ==
  [page |-> IF url.page = <<>> THEN <<>>
            ELSE LET n == Number(Decode(url.page[1]))
                 IN IF n = NaN THEN <<>> ELSE <<n>>,
   search |-> IF url.search = <<>> THEN <<>>
              ELSE <<Decode(url.search[1])>>,
   categories |-> IF url.categories = <<>> THEN <<>>
                  ELSE LET value == Decode(url.categories[1])
                       IN IF IncludesComma(value) THEN <<Split(value)>>
                          ELSE <<>>]

\* A caller serializes a query ...
Call_defineURL(p) ==
  /\ Free(p)
  /\ \E query \in Queries :
       Set(p, [Idle EXCEPT !.op = "QueryString", !.pc = "define",
                           !.query = query, !.url = defineURL(query)])
  /\ UNCHANGED <<env, Users, Profiles, nextUserId, nextProfileId>>

\* ... and the URL is parsed back.
Call_define(p) ==
  LET c == call[p] IN
  /\ c.pc = "define"
  /\ c.op = "QueryString"
  /\ Set(p, [End(c, "returned") EXCEPT !.parsed = define(c.url)])
  /\ UNCHANGED <<env, Users, Profiles, nextUserId, nextProfileId>>

NextQuery ==
  \/ Call_defineURL(1)
  \/ Call_define(1)
  \/ Return(1)

SpecQuery == Init /\ [][NextQuery]_vars

\* ------------------------------------------------------------ Validator
\* Validator.Keys, restricted to the columns of the model's rows.
Keys ==
  [Users |-> {"email", "password"}, Profiles |-> {"username", "categories"}]

\* useValidator("userProfile"): rules = ["Profiles", "Users"], indexed from 0
\* as the array is.
UserProfileRules == [i \in {0, 1} |-> IF i = 0 THEN "Profiles" ELSE "Users"]

\* The keys present in a payload ("for (let key in value)").
KeysOf(value) == {key \in DOMAIN value : value[key] # 0}

\* Schema(update).UserProfile.validate: email and password are required in
\* create mode and optional in update mode; the other keys are optional.
Valid(data, update) == update \/ (data.email # 0 /\ data.password # 0)

\* The two loops of Validator.segregate over the keys not yet visited: an
\* entry of arr is created ({}) the first time the inner loop passes its
\* index, and receives the key when its rule lists it. arr is indexed from
\* 0; an index outside DOMAIN arr is an entry the array does not have.
RECURSIVE segregateKeys(_, _, _, _)
segregateKeys(keys, value, rules, arr) ==
  IF keys = {} THEN arr
  ELSE LET key == CHOOSE k \in keys : TRUE
           entry(ruleIndex) ==
             IF ruleIndex \in DOMAIN arr THEN arr[ruleIndex] ELSE NoValue
       IN segregateKeys(keys \ {key}, value, rules,
            [ruleIndex \in DOMAIN rules |->
               IF key \in Keys[rules[ruleIndex]]
               THEN [entry(ruleIndex) EXCEPT ![key] = value[key]]
               ELSE entry(ruleIndex)])

\* Mutant: every key goes to the entry of the first rule.
segregate_firstRule(value, rules) ==
  [ruleIndex \in DOMAIN rules |-> IF ruleIndex = 0 THEN value ELSE NoValue]

\* Validator.segregate: let arr = []; the loops; return arr.
segregate(value, rules) == segregateKeys(KeysOf(value), value, rules, <<>>)

\* ----------------------------------------------------------- APIHandler
\* APIHandler.sensitive.hash: the fields of toHash (password) that hold a
\* value are replaced by their hash.
sensitive_hash(validInput) ==
  IF validInput.password # 0
  THEN [validInput EXCEPT !.password = Hash(validInput.password)]
  ELSE validInput

\* The keys of record.toSerializable(), per collection (0: Profiles, 1:
\* Users): the id, every column (null ones too) and the xata metadata.
Columns ==
  [i \in {0, 1} |->
     IF i = 0 THEN {"id", "user", "username", "categories", "xata"}
     ELSE {"id", "email", "password", "xata"}]

\* components.map(toSerializable) of the object with Profiles id `id`.
Serialized(id) ==
  [i \in {0, 1} |-> IF i = 0 THEN Profiles[id] ELSE Users[Profiles[id].user]]

\* serializedComponents.reduce((prev, curr) => ({ ...curr, ...prev })): the
\* keys of both components; id is the one of the Profiles component.
Combined(id, sc) ==
  [id |-> id, user |-> sc[0].user, username |-> sc[0].username,
   categories |-> sc[0].categories, xata |-> 1,
   email |-> sc[1].email, password |-> sc[1].password]

\* !serializedItem[key]: null and undefined are falsy, an array never is.
Falsy(key, v) == key # "categories" /\ v = 0

\* Mutant: only the falsy values are deleted.
sensitive_remove_falsy(serializedItem) ==
  {key \in DOMAIN serializedItem : ~Falsy(key, serializedItem[key])}

\* APIHandler.sensitive.remove: the keys left in the object after the fields
\* of toRemove and the falsy values are deleted.
sensitive_remove(serializedItem) ==
  {key \in DOMAIN serializedItem \ {"password", "user", "xata"} :
     ~Falsy(key, serializedItem[key])}

\* The serialized object a method returns.
Object(id, sc) ==
  [NoResult EXCEPT !.kind = "object",
                   !.keys = sensitive_remove(Combined(id, sc))]

\* APIHandler.handleErrors: Validator.handleError gives { error: {...} }, any
\* other error gives its message.
handleErrors(outcome) ==
  [NoResult EXCEPT !.kind = IF outcome = "ValidationError" THEN "error"
                            ELSE "message",
                   !.keys = IF outcome = "ValidationError" THEN {"error"}
                            ELSE {}]

\* catch (error) { return APIHandler.handleErrors(error) }
Caught(c, outcome) == [End(c, outcome) EXCEPT !.result = handleErrors(outcome)]

\* APIHandler.create(data): validate and segregate, hash, then
\* handleCollections.create(values).
APIHandler_create(p) ==
  /\ Free(p)
  /\ \E data \in Payloads :
       LET c == [Idle EXCEPT !.op = "APIHandler.create", !.data = data,
                             !.preStore = <<Users, Profiles>>]
       IN
       IF Valid(data, FALSE)
       THEN /\ CanCreate
            /\ LET segregated == segregate(data, UserProfileRules) IN
               Set(p, [c EXCEPT
                         !.pc = "api.create.secondary",
                         !.segregated = segregated,
                         !.values = [i \in DOMAIN segregated |->
                                       sensitive_hash(segregated[i])]])
       ELSE Set(p, Caught(c, "ValidationError"))
  /\ UNCHANGED <<env, Users, Profiles, nextUserId, nextProfileId>>

\* components[1] = await this.collections[1].create(values[1]);
\* completeData.user = components[1].
APIHandler_create_secondary(p) ==
  LET c == call[p] IN
  /\ c.pc = "api.create.secondary"
  /\ \/ /\ Users' = [Users EXCEPT ![nextUserId] =
                       [ex |-> TRUE, email |-> c.values[1].email,
                        password |-> c.values[1].password]]
        /\ nextUserId' = nextUserId + 1
        /\ Set(p, [c EXCEPT !.pc = "api.create.main", !.user = nextUserId])
     \/ /\ Set(p, Caught(c, "Error"))
        /\ UNCHANGED <<Users, nextUserId>>
  /\ UNCHANGED <<env, Profiles, nextProfileId>>

\* components[0] = await this.collections[0].create(completeData); the
\* components are serialized, combined and returned without sensitive keys.
APIHandler_create_main(p) ==
  LET c == call[p]
      row == [ex |-> TRUE, user |-> c.user,
              username |-> c.values[0].username,
              categories |-> c.values[0].categories]
      sc == [i \in {0, 1} |-> IF i = 0 THEN row ELSE Users[c.user]]
  IN
  /\ c.pc = "api.create.main"
  /\ \/ /\ Profiles' = [Profiles EXCEPT ![nextProfileId] = row]
        /\ nextProfileId' = nextProfileId + 1
        /\ Set(p, [End(c, "returned") EXCEPT
                     !.id = nextProfileId,
                     !.serializedComponents = sc,
                     !.result = Object(nextProfileId, sc)])
     \/ /\ Set(p, Caught(c, "Error"))
        /\ UNCHANGED <<Profiles, nextProfileId>>
  /\ UNCHANGED <<env, Users, nextUserId>>

\* APIHandler.get(id)
APIHandler_get(p) ==
  /\ Free(p)
  /\ \E id \in ProfileIds :
       Set(p, [Idle EXCEPT !.op = "APIHandler.get", !.id = id,
                           !.pc = "api.handleCollections.get"])
  /\ UNCHANGED <<env, Users, Profiles, nextUserId, nextProfileId>>

\* The order in which a request body lists its keys.
KeyOrders ==
  {<<"email", "password", "username", "categories">>,
   <<"username", "categories", "email", "password">>}

\* The collection whose serialized component has the key: the first
\* collectionID with key in serializedComponents[collectionID].
CollectionOf(key) == CHOOSE i \in {0, 1} : key \in Columns[i] /\
                       \A j \in {0, 1} : key \in Columns[j] => i <= j

\* APIHandler.update(id, data): validate and segregate in update mode, hash
\* the values, then handleCollections.get(id). collectionsToUpdate is filled
\* by the loop over the keys of data, one push per key.
APIHandler_update(p) ==
  /\ Free(p)
  /\ \E id \in ProfileIds, data \in Payloads, order \in KeyOrders :
       LET c == [Idle EXCEPT !.op = "APIHandler.update", !.id = id,
                             !.data = data, !.update = TRUE,
                             !.preStore = <<Users, Profiles>>]
           present == SelectSeq(order, LAMBDA key : data[key] # 0)
       IN
       IF Valid(data, TRUE)
       THEN LET segregated == segregate(data, UserProfileRules) IN
            Set(p, [c EXCEPT
                      !.pc = "api.handleCollections.get",
                      !.segregated = segregated,
                      !.values = [i \in DOMAIN segregated |->
                                    sensitive_hash(segregated[i])],
                      !.collectionsToUpdate =
                         [n \in 1..Len(present) |-> CollectionOf(present[n])]])
       ELSE Set(p, Caught(c, "ValidationError"))
  /\ UNCHANGED <<env, Users, Profiles, nextUserId, nextProfileId>>

\* APIHandler.delete(id)
APIHandler_delete(p) ==
  /\ Free(p)
  /\ \E id \in ProfileIds :
       Set(p, [Idle EXCEPT !.op = "APIHandler.delete", !.id = id,
                           !.pc = "api.handleCollections.get",
                           !.preStore = <<Users, Profiles>>])
  /\ UNCHANGED <<env, Users, Profiles, nextUserId, nextProfileId>>

\* serializedComponents[collectionID][key] = data[key] for every key of
\* data: the values of the request body, as the client sent them.
WithData(sc, data) ==
  [i \in {0, 1} |->
     IF i = 0
     THEN [sc[0] EXCEPT
             !.username = IF data.username # 0 THEN data.username ELSE @,
             !.categories = IF data.categories # 0 THEN data.categories ELSE @]
     ELSE [sc[1] EXCEPT
             !.email = IF data.email # 0 THEN data.email ELSE @,
             !.password = IF data.password # 0 THEN data.password ELSE @]]

\* handleCollections.get(id): readOrThrow of the main component, then of the
\* component its link names. get returns the object; update overwrites the
\* serialized components with the data; delete goes on to the deletes.
APIHandler_handleCollections_get(p) ==
  LET c == call[p]
      found == /\ Profiles[c.id].ex
               /\ Profiles[c.id].user # 0
               /\ Users[Profiles[c.id].user].ex
      sc == Serialized(c.id)
  IN
  /\ c.pc = "api.handleCollections.get"
  /\ \/ /\ found
        /\ c.op = "APIHandler.get"
        /\ Set(p, [End(c, "returned") EXCEPT
                     !.serializedComponents = sc,
                     !.result = Object(c.id, sc)])
     \/ /\ found
        /\ c.op = "APIHandler.update"
        /\ Set(p, [c EXCEPT !.pc = "api.update.updateOrThrow",
                     !.user = Profiles[c.id].user,
                     !.serializedComponents = WithData(sc, c.data)])
     \/ /\ found
        /\ c.op = "APIHandler.delete"
        /\ Set(p, [c EXCEPT !.pc = "api.delete.0",
                     !.user = Profiles[c.id].user,
                     !.serializedComponents = sc])
     \/ Set(p, Caught(c, "Error"))
  /\ UNCHANGED <<env, Users, Profiles, nextUserId, nextProfileId>>

\* await this.collections[collectionID].updateOrThrow(
\*   serializedComponents[collectionID]) for the next entry of
\* collectionsToUpdate; an error is caught and its message returned.
APIHandler_update_updateOrThrow(p) ==
  LET c == call[p]
      collectionID == Head(c.collectionsToUpdate)
      sc == c.serializedComponents
  IN
  /\ c.pc = "api.update.updateOrThrow"
  /\ c.collectionsToUpdate # <<>>
  /\ \/ /\ collectionID = 0
        /\ Profiles' = [Profiles EXCEPT ![c.id] = sc[0]]
        /\ UNCHANGED Users
        /\ Set(p, [c EXCEPT !.collectionsToUpdate = Tail(@)])
     \/ /\ collectionID = 1
        /\ Users' = [Users EXCEPT ![c.user] = sc[1]]
        /\ UNCHANGED Profiles
        /\ Set(p, [c EXCEPT !.collectionsToUpdate = Tail(@)])
     \/ /\ Set(p, Caught(c, "Error"))
        /\ UNCHANGED <<Users, Profiles>>
  /\ UNCHANGED <<env, nextUserId, nextProfileId>>

\* After the last update: the serialized components are combined and
\* returned without sensitive keys.
APIHandler_update_return(p) ==
  LET c == call[p] IN
  /\ c.pc = "api.update.updateOrThrow"
  /\ c.collectionsToUpdate = <<>>
  /\ Set(p, [End(c, "returned") EXCEPT
               !.result = Object(c.id, c.serializedComponents)])
  /\ UNCHANGED <<env, Users, Profiles, nextUserId, nextProfileId>>

\* await this.collections[0].deleteOrThrow(components[0])
APIHandler_delete_0(p) ==
  LET c == call[p] IN
  /\ c.pc = "api.delete.0"
  /\ \/ /\ Profiles' = [Profiles EXCEPT ![c.id] = NoProfile]
        /\ Set(p, [c EXCEPT !.pc = "api.delete.1"])
     \/ /\ Set(p, Caught(c, "Error"))
        /\ UNCHANGED Profiles
  /\ UNCHANGED <<env, Users, nextUserId, nextProfileId>>

\* await this.collections[1].deleteOrThrow(components[1]); the components
\* read at the start are serialized, combined and returned.
APIHandler_delete_1(p) ==
  LET c == call[p] IN
  /\ c.pc = "api.delete.1"
  /\ \/ /\ Users' = [Users EXCEPT ![c.user] = NoUser]
        /\ Set(p, [End(c, "returned") EXCEPT
                     !.result = Object(c.id, c.serializedComponents)])
     \/ /\ Set(p, Caught(c, "Error"))
        /\ UNCHANGED Users
  /\ UNCHANGED <<env, Profiles, nextUserId, nextProfileId>>

\* ---------------------------------------------------------------- pages
\* The ids of the Profiles records, in the order getMany lists them.
RECURSIVE ExistingUpTo(_)
ExistingUpTo(n) ==
  IF n = 0 THEN <<>>
  ELSE IF Profiles[n].ex THEN Append(ExistingUpTo(n - 1), n)
       ELSE ExistingUpTo(n - 1)

\* xata.db.Profiles.getMany({ pagination: { size, offset } })
getMany(size, offset) ==
  LET all == ExistingUpTo(Cardinality(DOMAIN Profiles))
      last == IF offset + size < Len(all) THEN offset + size ELSE Len(all)
  IN SubSeq(all, offset + 1, last)

\* The profiles of a page that have a user: the others are skipped
\* (continue in getAll, isNull in handleCollections.query).
WithUser(ids) ==
  SelectSeq(ids, LAMBDA id : Profiles[id].user # 0
                             /\ Users[Profiles[id].user].ex)

\* The size a search query has when it names none.
DefaultSize == 20

\* let { page = 1, size = 20 } = query; if (page < 0) page = 1;
\* if (size < 0) size = 1.
getAll_page(query) ==
  IF query.page = <<>> THEN 1
  ELSE IF query.page[1] < 0 THEN 1 ELSE query.page[1]
getAll_size(query) ==
  IF query.size = <<>> THEN DefaultSize
  ELSE IF query.size[1] < 0 THEN 1 ELSE query.size[1]

\* if (!page || page < 1) page = 1; if (!size || size < 1) size = 20.
query_page(query) ==
  IF query.page = <<>> THEN 1
  ELSE IF query.page[1] < 1 THEN 1 ELSE query.page[1]
query_size(query) ==
  IF query.size = <<>> THEN DefaultSize
  ELSE IF query.size[1] < 1 THEN DefaultSize ELSE query.size[1]

\* The page object: hasNextPage = objects.length > size; count =
\* hasNextPage ? objects.length - 1 : objects.length; results = the objects.
Page(objects, size) ==
  [NoResult EXCEPT
     !.kind = "page",
     !.size = size,
     !.count = IF Len(objects) > size THEN Len(objects) - 1 ELSE Len(objects),
     !.results = objects]

\* UserProfile.getAll(query) from an offset the store accepts: getMany with
\* size + 1, a Users.read per profile, the serialized pairs.
getAll(query, offset) ==
  LET size == getAll_size(query)
      ids == WithUser(getMany(size + 1, offset))
  IN Page([n \in 1..Len(ids) |->
             UserProfile_object(Profiles[ids[n]],
                                Users[Profiles[ids[n]].user]).keys],
          size)

\* UserProfile.getAll(query), reads only. offset = (page - 1) * size is
\* negative for page 0: the store then rejects the request or lists from
\* the first record. A throw of the store reaches the caller.
UserProfile_getAll_query(p) ==
  /\ Free(p)
  /\ \E query \in Paginations :
       LET c == [Idle EXCEPT !.op = "getAll", !.pagination = query]
           offset == (getAll_page(query) - 1) * getAll_size(query)
       IN \/ Set(p, [End(c, "returned") EXCEPT
                       !.result = getAll(query,
                                         IF offset < 0 THEN 0 ELSE offset)])
          \/ Set(p, End(c, "Error"))
  /\ UNCHANGED <<env, Users, Profiles, nextUserId, nextProfileId>>

\* APIHandler.query(url): handleCollections.query reads the main components
\* with size + 1 and the component each links to; the objects are
\* serialized, combined and returned without sensitive data.
query(url) ==
  LET size == query_size(url)
      ids == WithUser(getMany(size + 1, (query_page(url) - 1) * size))
  IN Page([n \in 1..Len(ids) |->
             sensitive_remove(Combined(ids[n], Serialized(ids[n])))],
          size)

\* APIHandler.query(url), reads only; an error is caught and its message
\* returned.
APIHandler_query(p) ==
  /\ Free(p)
  /\ \E url \in Paginations :
       LET c == [Idle EXCEPT !.op = "APIHandler.query", !.pagination = url]
       IN \/ Set(p, [End(c, "returned") EXCEPT !.result = query(url)])
          \/ Set(p, Caught(c, "Error"))
  /\ UNCHANGED <<env, Users, Profiles, nextUserId, nextProfileId>>

\* UserProfile.get(id), called directly.
UserProfile_get_call(p) ==
  /\ Free(p)
  /\ \E id \in ProfileIds : Set(p, CallGet(Idle, id))
  /\ UNCHANGED <<env, Users, Profiles, nextUserId, nextProfileId>>

\* The handler of useNext(method), try block: const json = await funct();
\* return NextResponse.json(json). funct is the method, which has ended: what
\* it returned, a result or what handleErrors made of an error, is the
\* body, and no status is passed (200).
APIHandler_useNext(p) ==
  LET c == call[p] IN
  /\ c.pc = "done" /\ c.route = "none"
  /\ c.op \in {"APIHandler.query", "APIHandler.create", "APIHandler.get",
               "APIHandler.update", "APIHandler.delete"}
  /\ Set(p, [c EXCEPT !.pc = "responded", !.route = "useNext",
                      !.status = 200,
                      !.body = [kind |-> c.result.kind,
                                keys |-> c.result.keys]])
  /\ UNCHANGED <<env, Users, Profiles, nextUserId, nextProfileId>>

\* The handler of useNext("create" | "update"), catch block: request.json()
\* throws on a body that is not JSON, before the method is called; the error
\* is no Validator.Error and its message is answered with status 500.
APIHandler_useNext_catch(p) ==
  /\ Free(p)
  /\ \E method \in {"APIHandler.create", "APIHandler.update"} :
       Set(p, [Idle EXCEPT !.op = method, !.pc = "responded",
                           !.route = "useNext", !.outcome = "Error",
                           !.status = 500,
                           !.body = [kind |-> "message", keys |-> {}]])
  /\ UNCHANGED <<env, Users, Profiles, nextUserId, nextProfileId>>

\* The methods of APIHandler over the user profile, one call at a time.
NextAPI ==
  \/ APIHandler_useNext(1)
  \/ APIHandler_useNext_catch(1)
  \/ APIHandler_create(1)
  \/ APIHandler_create_secondary(1)
  \/ APIHandler_create_main(1)
  \/ APIHandler_get(1)
  \/ APIHandler_update(1)
  \/ APIHandler_delete(1)
  \/ APIHandler_handleCollections_get(1)
  \/ APIHandler_update_updateOrThrow(1)
  \/ APIHandler_update_return(1)
  \/ APIHandler_delete_0(1)
  \/ APIHandler_delete_1(1)
  \/ APIHandler_query(1)
  \/ UserProfile_getAll_query(1)
  \/ UserProfile_get_call(1)
  \/ UserProfile_get_readProfile(1)
  \/ UserProfile_get_readUser(1)
  \/ UserProfileStep(1)

SpecAPI == Init /\ [][NextAPI]_vars

\* A store with up to MaxRows user profiles, each a Profiles record linked
\* to its Users record: what creates and deletes leave behind. The Users
\* record of some is missing (alone): a write that failed midway.
InitPage ==
  /\ \E present \in SUBSET (1..MaxRows), named \in SUBSET (1..MaxRows),
        alone \in SUBSET (1..MaxRows) :
       /\ named \subseteq present
       /\ alone \subseteq present
       /\ Users = [u \in 1..MaxRows |->
                     IF u \in present \ alone
                     THEN [ex |-> TRUE, email |-> 1, password |-> Hash(1)]
                     ELSE NoUser]
       /\ Profiles = [i \in 1..MaxRows |->
                        IF i \in present
                        THEN [ex |-> TRUE, user |-> i,
                              username |-> IF i \in named THEN 1 ELSE 0,
                              categories |-> 0]
                        ELSE NoProfile]
  /\ nextUserId = MaxRows + 1
  /\ nextProfileId = MaxRows + 1
  /\ call = [p \in Procs |-> Idle]
  /\ env = [JWT_ACCESS_SECRET_KEY |-> TRUE, JWT_REFRESH_SECRET_KEY |-> TRUE]

\* The two search queries over such a store.
NextPage ==
  \/ APIHandler_query(1)
  \/ UserProfile_getAll_query(1)
  \/ Return(1)

SpecPage == InitPage /\ [][NextPage]_vars

\* ------------------------------------- Transaction.update and delete
\* The values a caller passes to Transaction.update: a validated payload,
\* segregated per collection, the password hashed; categories is an array.
TxPayloads ==
  [email : OptNames, password : {0} \cup Passwords, username : OptNames,
   categories : {0, 1}]

\* Transaction.verify.byKeys for one collection: for every key of
\* values[collectionID], values[collectionID][key] === the component's. An
\* array the store returns is never the array that was passed.
verify_byKeys(component, entry) ==
  \A key \in KeysOf(entry) : key # "categories" /\ entry[key] = component[key]

\* { ...components[collectionID], ...values[collectionID] }
Override(component, entry) ==
  [key \in DOMAIN component |->
     IF key \in DOMAIN entry /\ key \in KeysOf(entry) THEN entry[key]
     ELSE component[key]]

\* Transaction.update(operation) is called.
Transaction_update(p) ==
  /\ Free(p)
  /\ \E id \in ProfileIds, data \in TxPayloads :
       LET segregated == segregate(data, UserProfileRules) IN
       Set(p, [Idle EXCEPT
                 !.op = "Transaction.update", !.pc = "tx.update.get",
                 !.id = id, !.data = data, !.preStore = <<Users, Profiles>>,
                 !.values = [i \in DOMAIN segregated |->
                               sensitive_hash(segregated[i])]])
  /\ UNCHANGED <<env, Users, Profiles, nextUserId, nextProfileId>>

\* components = await this.get(...): the two records, or [] when a
\* readOrThrow throws (get catches the error).
TransactionGet(p, to) ==
  LET c == call[p]
      found == /\ Profiles[c.id].ex
               /\ Profiles[c.id].user # 0
               /\ Users[Profiles[c.id].user].ex
  IN
  /\ \/ /\ found
        /\ Set(p, [c EXCEPT !.pc = to, !.userId = Profiles[c.id].user,
                     !.profileCopy = Profiles[c.id],
                     !.userCopy = Users[Profiles[c.id].user]])
     \/ Set(p, [c EXCEPT !.pc = to])
  /\ UNCHANGED <<env, Users, Profiles, nextUserId, nextProfileId>>

Transaction_update_get(p) ==
  /\ call[p].pc = "tx.update.get"
  /\ TransactionGet(p, "tx.update.0")

\* collectionID = 0: if (values[0]) the Profiles component is overridden,
\* persisted with updateOrThrow and checked key by key. Without components
\* the object has no id and updateOrThrow throws.
Transaction_update_0(p) ==
  LET c == call[p]
      updatedComponent == Override(c.profileCopy, c.values[0])
  IN
  /\ c.pc = "tx.update.0"
  /\ IF 0 \notin DOMAIN c.values
     THEN /\ Set(p, [c EXCEPT !.pc = "tx.update.1"])
          /\ UNCHANGED Profiles
     ELSE \/ /\ c.profileCopy.ex
             /\ Profiles' = [Profiles EXCEPT ![c.id] = updatedComponent]
             /\ Set(p, [c EXCEPT
                          !.pc = IF verify_byKeys(updatedComponent,
                                                  c.values[0])
                                 THEN "tx.update.1" ELSE "tx.update.catch.0",
                          !.updatedComponents = @ \cup {0}])
          \/ /\ Set(p, [c EXCEPT !.pc = "tx.update.catch.0"])
             /\ UNCHANGED Profiles
  /\ UNCHANGED <<env, Users, nextUserId, nextProfileId>>

\* collectionID = 1: the same for the Users component; then the updated
\* components are returned.
Transaction_update_1(p) ==
  LET c == call[p]
      updatedComponent == Override(c.userCopy, c.values[1])
  IN
  /\ c.pc = "tx.update.1"
  /\ IF 1 \notin DOMAIN c.values
     THEN /\ Set(p, End(c, "returned"))
          /\ UNCHANGED Users
     ELSE \/ /\ c.userCopy.ex
             /\ Users' = [Users EXCEPT ![c.userId] = updatedComponent]
             /\ Set(p, IF verify_byKeys(updatedComponent, c.values[1])
                       THEN [End(c, "returned") EXCEPT
                               !.updatedComponents = @ \cup {1}]
                       ELSE [c EXCEPT !.pc = "tx.update.catch.0",
                                      !.updatedComponents = @ \cup {1}])
          \/ /\ Set(p, [c EXCEPT !.pc = "tx.update.catch.0"])
             /\ UNCHANGED Users
  /\ UNCHANGED <<env, Profiles, nextUserId, nextProfileId>>

\* Mutant: the catch passes over the Profiles component.
Transaction_update_catch_0_skipped(p) ==
  LET c == call[p] IN
  /\ c.pc = "tx.update.catch.0"
  /\ Set(p, [c EXCEPT !.pc = "tx.update.catch.1"])
  /\ UNCHANGED <<env, Users, Profiles, nextUserId, nextProfileId>>

\* catch, collectionID = 0: if (updatedComponents[0])
\* await collections[0].update(components[0]).
Transaction_update_catch_0(p) ==
  LET c == call[p] IN
  /\ c.pc = "tx.update.catch.0"
  /\ IF 0 \notin c.updatedComponents
     THEN /\ Set(p, [c EXCEPT !.pc = "tx.update.catch.1"])
          /\ UNCHANGED Profiles
     ELSE \/ /\ Profiles' = [Profiles EXCEPT ![c.id] = c.profileCopy]
             /\ Set(p, [c EXCEPT !.pc = "tx.update.catch.1",
                                 !.did = @ \cup {"reverted"}])
          \/ /\ Set(p, [End(c, "Error") EXCEPT
                          !.did = @ \cup {"revertFailed"}])
             /\ UNCHANGED Profiles
  /\ UNCHANGED <<env, Users, nextUserId, nextProfileId>>

\* catch, collectionID = 1, then throw error.
Transaction_update_catch_1(p) ==
  LET c == call[p] IN
  /\ c.pc = "tx.update.catch.1"
  /\ IF 1 \notin c.updatedComponents
     THEN /\ Set(p, End(c, "Error"))
          /\ UNCHANGED Users
     ELSE \/ /\ Users' = [Users EXCEPT ![c.userId] = c.userCopy]
             /\ Set(p, [End(c, "Error") EXCEPT
                          !.did = @ \cup {"reverted"}])
          \/ /\ Set(p, [End(c, "Error") EXCEPT
                          !.did = @ \cup {"revertFailed"}])
             /\ UNCHANGED Users
  /\ UNCHANGED <<env, Profiles, nextUserId, nextProfileId>>

\* Transaction.delete(operation) is called.
Transaction_delete(p) ==
  /\ Free(p)
  /\ \E id \in ProfileIds :
       Set(p, [Idle EXCEPT
                 !.op = "Transaction.delete", !.pc = "tx.delete.get",
                 !.id = id, !.preStore = <<Users, Profiles>>])
  /\ UNCHANGED <<env, Users, Profiles, nextUserId, nextProfileId>>

Transaction_delete_get(p) ==
  /\ call[p].pc = "tx.delete.get"
  /\ TransactionGet(p, "tx.delete.0")

\* Transaction.verify.byReading: isValid = collection.read(object) === null.
\* read is async: what is compared with null is the Promise it returns,
\* before the store has answered, whether the record exists or not.
verify_byReading(exists) == FALSE

\* collectionID = 0: component = await collections[0].delete(components[0]);
\* if (component) deletedComponents[0] = component; then byReading. Without
\* components delete(undefined) throws.
Transaction_delete_0(p) ==
  LET c == call[p] IN
  /\ c.pc = "tx.delete.0"
  /\ \/ /\ c.profileCopy.ex
        /\ Profiles' = [Profiles EXCEPT ![c.id] = NoProfile]
        /\ Set(p, [c EXCEPT
                     !.pc = IF verify_byReading(FALSE)
                            THEN "tx.delete.1" ELSE "tx.delete.catch.0",
                     !.deletedComponents = @ \cup {0}])
     \/ /\ Set(p, [c EXCEPT !.pc = "tx.delete.catch.0",
                            !.did = @ \cup {"storeThrew"}])
        /\ UNCHANGED Profiles
  /\ UNCHANGED <<env, Users, nextUserId, nextProfileId>>

\* Mutant: the catch passes over the Profiles component.
Transaction_delete_catch_0_skipped(p) ==
  LET c == call[p] IN
  /\ c.pc = "tx.delete.catch.0"
  /\ Set(p, End(c, "Error"))
  /\ UNCHANGED <<env, Users, Profiles, nextUserId, nextProfileId>>

\* catch: if (deletedComponents[0]) await
\* collections[0].create(components[0]); deletedComponents has no further
\* entry; throw error.
Transaction_delete_catch_0(p) ==
  LET c == call[p] IN
  /\ c.pc = "tx.delete.catch.0"
  /\ IF 0 \notin c.deletedComponents
     THEN /\ Set(p, End(c, "Error"))
          /\ UNCHANGED Profiles
     ELSE \/ /\ Profiles' = [Profiles EXCEPT ![c.id] = c.profileCopy]
             /\ Set(p, [End(c, "Error") EXCEPT
                          !.did = @ \cup {"reverted"}])
          \/ /\ Set(p, [End(c, "Error") EXCEPT
                          !.did = @ \cup {"revertFailed"}])
             /\ UNCHANGED Profiles
  /\ UNCHANGED <<env, Users, nextUserId, nextProfileId>>

\* Transaction.create, update and delete, one call at a time.
NextTx ==
  \/ Transaction_create(1)
  \/ Transaction_create_secondary(1)
  \/ Transaction_create_main(1)
  \/ Transaction_create_catch_0(1)
  \/ Transaction_create_catch_1(1)
  \/ Transaction_update(1)
  \/ Transaction_update_get(1)
  \/ Transaction_update_0(1)
  \/ Transaction_update_1(1)
  \/ Transaction_update_catch_0(1)
  \/ Transaction_update_catch_1(1)
  \/ Transaction_delete(1)
  \/ Transaction_delete_get(1)
  \/ Transaction_delete_0(1)
  \/ Transaction_delete_catch_0(1)
  \/ Return(1)

SpecTx == Init /\ [][NextTx]_vars

\* ------------------------------- Transaction.methods (operations run)
\* The Transaction class that runs operations: TableConfigs.UserProfile has
\* tables [Profiles, Users], mainTableID 0, secondaryTableIDs [1], tableKeys
\* ["user"]. Every method catches its errors and returns [] (outcome
\* "empty"); revertMethods.create, update and delete have empty bodies.
Empty(c) == [End(c, "empty") EXCEPT !.did = @ \cup {"storeThrew"}]

\* methods.create(operation) is called.
Transaction_methods_create(p) ==
  /\ Free(p)
  /\ CanCreate
  /\ \E values \in TxValues :
       Set(p, [Idle EXCEPT
                 !.op = "methods.create", !.pc = "m.create.secondary",
                 !.value = values, !.preStore = <<Users, Profiles>>,
                 !.values = segregate(values, UserProfileRules)])
  /\ UNCHANGED <<env, Users, Profiles, nextUserId, nextProfileId>>

\* records[1] = await tables[1].create(values[1]); mainRecordBuild.user =
\* records[1]; catch: return []. create(undefined) throws; an object that
\* carries an id (a record some operation returned) is created under that id
\* unless a record has it; the store has ids for MaxRecs records.
Transaction_methods_create_secondary(p) ==
  LET c == call[p]
      given == 1 \in DOMAIN c.values /\ "id" \in DOMAIN c.values[1]
      id == IF given THEN c.values[1].id ELSE nextUserId
  IN
  /\ c.pc = "m.create.secondary"
  /\ \/ /\ 1 \in DOMAIN c.values
        /\ id \in UserIds /\ ~Users[id].ex
        /\ Users' = [Users EXCEPT ![id] =
                       [ex |-> TRUE, email |-> c.values[1].email,
                        password |-> c.values[1].password]]
        /\ nextUserId' = IF given THEN nextUserId ELSE nextUserId + 1
        /\ Set(p, [c EXCEPT !.pc = "m.create.main", !.user = id,
                     !.created = @ \cup {<<"Users", id>>}])
     \/ /\ Set(p, Empty(c))
        /\ UNCHANGED <<Users, nextUserId>>
  /\ UNCHANGED <<env, Profiles, nextProfileId>>

\* records[0] = await tables[0].create(mainRecordBuild); return records;
\* catch: return [].
Transaction_methods_create_main(p) ==
  LET c == call[p]
      given == "id" \in DOMAIN c.values[0]
      id == IF given THEN c.values[0].id ELSE nextProfileId
  IN
  /\ c.pc = "m.create.main"
  /\ \/ /\ id \in 1..MaxRecs /\ ~Profiles[id].ex
        /\ Profiles' = [Profiles EXCEPT ![id] =
                          [ex |-> TRUE, user |-> c.user,
                           username |-> c.values[0].username,
                           categories |-> c.values[0].categories]]
        /\ nextProfileId' = IF given THEN nextProfileId ELSE nextProfileId + 1
        /\ Set(p, [End(c, "returned") EXCEPT
                     !.profile = id,
                     !.created = @ \cup {<<"Profiles", id>>}])
     \/ /\ Set(p, Empty(c))
        /\ UNCHANGED <<Profiles, nextProfileId>>
  /\ UNCHANGED <<env, Users, nextUserId>>

\* methods.update(operation) is called.
Transaction_methods_update(p) ==
  /\ Free(p)
  /\ \E id \in ProfileIds, data \in TxPayloads :
       LET segregated == segregate(data, UserProfileRules) IN
       Set(p, [Idle EXCEPT
                 !.op = "methods.update", !.pc = "m.update.get",
                 !.id = id, !.data = data, !.preStore = <<Users, Profiles>>,
                 !.values = [i \in DOMAIN segregated |->
                               sensitive_hash(segregated[i])]])
  /\ UNCHANGED <<env, Users, Profiles, nextUserId, nextProfileId>>

\* records = await this.methods.get(getOperation): the records, or [].
Transaction_methods_update_get(p) ==
  /\ call[p].pc = "m.update.get"
  /\ TransactionGet(p, "m.update.0")

\* { ...record, ...value }, as a row: a value that carries an id is a record
\* some operation returned, which has every column, the null ones too.
Spread(record, value) ==
  IF "id" \in DOMAIN value
  THEN [key \in DOMAIN record |-> IF key = "ex" THEN TRUE ELSE value[key]]
  ELSE Override(record, value)

\* tablesID = 0: if (values[0]) updatedRecords[0] = await
\* tables[0].updateOrThrow({ ...records[0], ...values[0] }); catch:
\* return []. The record updated is the one the spread object names: that
\* of values[0].id when it has one, else records[0], else none (a throw).
Transaction_methods_update_0(p) ==
  LET c == call[p]
      given == "id" \in DOMAIN c.values[0]
      id == IF given THEN c.values[0].id ELSE c.id
  IN
  /\ c.pc = "m.update.0"
  /\ IF 0 \notin DOMAIN c.values
     THEN /\ Set(p, [c EXCEPT !.pc = "m.update.1"])
          /\ UNCHANGED Profiles
     ELSE \/ /\ IF given THEN Profiles[id].ex ELSE c.profileCopy.ex
             /\ Profiles' = [Profiles EXCEPT ![id] =
                               Spread(c.profileCopy, c.values[0])]
             /\ Set(p, [c EXCEPT !.pc = "m.update.1",
                                 !.updatedComponents = @ \cup {0}])
          \/ /\ Set(p, Empty(c))
             /\ UNCHANGED Profiles
  /\ UNCHANGED <<env, Users, nextUserId, nextProfileId>>

\* tablesID = 1, then the updated table object is returned.
Transaction_methods_update_1(p) ==
  LET c == call[p]
      given == "id" \in DOMAIN c.values[1]
      id == IF given THEN c.values[1].id ELSE c.userId
  IN
  /\ c.pc = "m.update.1"
  /\ IF 1 \notin DOMAIN c.values
     THEN /\ Set(p, End(c, "returned"))
          /\ UNCHANGED Users
     ELSE \/ /\ IF given THEN Users[id].ex ELSE c.userCopy.ex
             /\ Users' = [Users EXCEPT ![id] =
                            Spread(c.userCopy, c.values[1])]
             /\ Set(p, [End(c, "returned") EXCEPT
                          !.updatedComponents = @ \cup {1}])
          \/ /\ Set(p, Empty(c))
             /\ UNCHANGED Users
  /\ UNCHANGED <<env, Profiles, nextUserId, nextProfileId>>

\* methods.delete(operation) is called.
Transaction_methods_delete(p) ==
  /\ Free(p)
  /\ \E id \in ProfileIds :
       Set(p, [Idle EXCEPT
                 !.op = "methods.delete", !.pc = "m.delete.get",
                 !.id = id, !.preStore = <<Users, Profiles>>])
  /\ UNCHANGED <<env, Users, Profiles, nextUserId, nextProfileId>>

Transaction_methods_delete_get(p) ==
  /\ call[p].pc = "m.delete.get"
  /\ TransactionGet(p, "m.delete.0")

\* tableID = 0: await tables[0].delete(records[0]); delete(undefined)
\* throws; catch: return [].
Transaction_methods_delete_0(p) ==
  LET c == call[p] IN
  /\ c.pc = "m.delete.0"
  /\ \/ /\ c.profileCopy.ex
        /\ Profiles' = [Profiles EXCEPT ![c.id] = NoProfile]
        /\ Set(p, [c EXCEPT !.pc = "m.delete.1",
                            !.deletedComponents = @ \cup {0}])
     \/ /\ Set(p, Empty(c))
        /\ UNCHANGED Profiles
  /\ UNCHANGED <<env, Users, nextUserId, nextProfileId>>

\* tableID = 1, then the deleted table object is returned.
Transaction_methods_delete_1(p) ==
  LET c == call[p] IN
  /\ c.pc = "m.delete.1"
  /\ \/ /\ Users' = [Users EXCEPT ![c.userId] = NoUser]
        /\ Set(p, [End(c, "returned") EXCEPT
                     !.deletedComponents = @ \cup {1}])
     \/ /\ Set(p, Empty(c))
        /\ UNCHANGED Users
  /\ UNCHANGED <<env, Profiles, nextUserId, nextProfileId>>

\* The operations a transaction runs, one at a time.
NextRun ==
  \/ Transaction_methods_create(1)
  \/ Transaction_methods_create_secondary(1)
  \/ Transaction_methods_create_main(1)
  \/ Transaction_methods_update(1)
  \/ Transaction_methods_update_get(1)
  \/ Transaction_methods_update_0(1)
  \/ Transaction_methods_update_1(1)
  \/ Transaction_methods_delete(1)
  \/ Transaction_methods_delete_get(1)
  \/ Transaction_methods_delete_0(1)
  \/ Transaction_methods_delete_1(1)
  \/ Return(1)

SpecRun == Init /\ [][NextRun]_vars

\* ------------------------------------------------- Transaction.actions
\* An operation of a transaction: its method and its data (id, values); the
\* slot of a removed operation holds null. operations, operationOptions and
\* results are arrays indexed from 0: entry i of the array is element i + 1
\* of the sequence, and results is a function on the ids it has entries for.
\* An entry of operationOptions is the useResultForValues of the options
\* (<<k>>), or <<>> for no options, no useResultForValues, or null.
Null == [method |-> "null", id |-> 0, values |-> <<>>]

\* The operations a caller adds: a create with values per table, a get, an
\* update or a delete of an object id.
Operations ==
  {[method |-> "create", id |-> 0,
    values |-> segregate(v, UserProfileRules)] :
      v \in {w \in TxValues :
                w.email = 1 /\ w.username = 0 /\ w.categories = 0}}
  \cup [method : {"get", "delete"}, id : UserIds, values : {<<>>}]
  \cup {[method |-> "update", id |-> i,
         values |-> segregate(d, UserProfileRules)] :
          i \in UserIds,
          d \in {w \in TxPayloads :
                   /\ w.email = 0 /\ w.password = 0
                   /\ w.username = 1 /\ w.categories = 0}}

\* A record as the store returns it: its id and every column of its table
\* (0: null); the columns of the other table are undefined (0).
TableRecord(id, row) ==
  [key \in {"id", "user", "username", "categories", "email", "password"} |->
     IF key = "id" THEN id ELSE IF key \in DOMAIN row THEN row[key] ELSE 0]

\* The table object [Profiles record, Users record] of two rows.
TableObject(id, profile, userId, user) ==
  [i \in {0, 1} |->
     IF i = 0 THEN TableRecord(id, profile) ELSE TableRecord(userId, user)]

\* What the method that has just ended returns: the table object, or [].
\* create returns the records created; get and delete return the records
\* read; update returns records.map(...) over the records read (nothing
\* when there are none), each replaced by the record updateOrThrow returned.
Records(c) ==
  IF c.op = "methods.create"
  THEN IF c.outcome = "returned"
       THEN TableObject(c.profile, Profiles[c.profile], c.user, Users[c.user])
       ELSE <<>>
  ELSE IF c.outcome = "empty" \/ ~c.profileCopy.ex THEN <<>>
  ELSE IF c.op = "methods.update"
  THEN LET target(i, own) ==
             IF "id" \in DOMAIN c.values[i] THEN c.values[i].id ELSE own
           pid == IF 0 \in c.updatedComponents THEN target(0, c.id) ELSE 0
           uid == IF 1 \in c.updatedComponents THEN target(1, c.userId) ELSE 0
       IN TableObject(IF pid # 0 THEN pid ELSE c.id,
                      IF pid # 0 THEN Profiles[pid] ELSE c.profileCopy,
                      IF uid # 0 THEN uid ELSE c.userId,
                      IF uid # 0 THEN Users[uid] ELSE c.userCopy)
  ELSE TableObject(c.id, c.profileCopy, c.userId, c.userCopy)

\* actions.add(operation, options): the id is the index of the new entry.
\* The options of a get or a delete are not read by run: they have none.
Transaction_actions_add(p) ==
  LET c == call[p] IN
  /\ c.pc = "idle"
  /\ Len(c.operations) < MaxOps
  /\ \E operation \in Operations,
        options \in {<<>>} \cup {<<k>> : k \in 0..(MaxOps - 2)} :
       LET operationID == Len(c.operations) + 1 - 1 IN
       /\ operation.method \in {"get", "delete"} => options = <<>>
       /\ Set(p, [c EXCEPT
                 !.operations = Append(@, operation),
                 !.operationOptions = Append(@, options),
                 !.added = Append(@, [id |-> operationID,
                                      operation |-> operation,
                                      options |-> options])])
  /\ UNCHANGED <<env, Users, Profiles, nextUserId, nextProfileId>>

\* The call remove(operationID) as the history keeps it: the id, what the
\* call returned, whether operations had an entry for the id, and the ids
\* that earlier calls had found an entry for.
RemoveCall(c, operationID, operation) ==
  [id |-> operationID, operation |-> operation,
   added |-> operationID < Len(c.operations), earlier |-> c.removedIds]

\* Mutant: the entry is taken out of the array, the later ones move down.
Transaction_actions_remove_splice(p) ==
  LET c == call[p] IN
  /\ c.pc = "idle"
  /\ \E operationID \in 0..(MaxOps - 1) :
       LET has == operationID < Len(c.operations)
           without(seq) ==
             [i \in 1..(Len(seq) - 1) |->
                IF i <= operationID THEN seq[i] ELSE seq[i + 1]]
       IN
       IF has
       THEN Set(p, [c EXCEPT
                      !.operations = without(@),
                      !.operationOptions = without(@),
                      !.removedIds = @ \cup {operationID},
                      !.removed =
                         <<RemoveCall(c, operationID,
                                      c.operations[operationID + 1])>>])
       ELSE Set(p, [c EXCEPT
                      !.removed = <<RemoveCall(c, operationID, Null)>>])
  /\ UNCHANGED <<env, Users, Profiles, nextUserId, nextProfileId>>

\* actions.remove(operationID): an entry that holds an operation is set to
\* null, with its options, and a copy of the operation is returned; without
\* such an entry undefined is returned (recorded as Null). History: removed
\* is the last call, removedIds the ids calls had an entry for.
Transaction_actions_remove(p) ==
  LET c == call[p] IN
  /\ c.pc = "idle"
  /\ \E operationID \in 0..(MaxOps - 1) :
       LET operation ==
             IF operationID < Len(c.operations)
             THEN c.operations[operationID + 1] ELSE Null
           d == [c EXCEPT
                   !.removed = <<RemoveCall(c, operationID, operation)>>,
                   !.removedIds =
                      IF operationID < Len(c.operations)
                      THEN @ \cup {operationID} ELSE @]
       IN
       IF operation # Null
       THEN Set(p, [d EXCEPT
                      !.operations[operationID + 1] = Null,
                      !.operationOptions[operationID + 1] = <<>>])
       ELSE Set(p, d)
  /\ UNCHANGED <<env, Users, Profiles, nextUserId, nextProfileId>>

\* actions.run() is called: let operationID = 0.
Transaction_actions_run(p) ==
  LET c == call[p] IN
  /\ c.pc = "idle"
  /\ Set(p, [c EXCEPT !.op = "actions.run", !.pc = "run", !.operationID = 0])
  /\ UNCHANGED <<env, Users, Profiles, nextUserId, nextProfileId>>

\* const useResult = options?.useResultForValues;
\* const values = useResult ? this.results[useResult] : undefined;
\* <<>> stands for undefined, <<v>> for the array v.
Transaction_actions_run_useResult(c) ==
  LET options == c.operationOptions[c.operationID + 1] IN
  IF options # <<>> /\ options[1] # 0 /\ options[1] \in DOMAIN c.results
  THEN <<c.results[options[1]]>> ELSE <<>>

\* One pass of the loop of run up to the call of the method: the loop ends
\* after the last entry, a null entry is passed over, and for any other the
\* method of the operation is called, for create and update with
\* operation.data.values = values when values is defined. data is the object
\* the entry of operations holds, so the assignment shows there too.
\* History: ran lists the operations as the methods received them.
Transaction_actions_run_operation(p) ==
  LET c == call[p]
      operation == c.operations[c.operationID + 1]
      values == Transaction_actions_run_useResult(c)
      data ==
        IF operation.method \in {"create", "update"} /\ values # <<>>
        THEN [operation EXCEPT !.values = values[1]] ELSE operation
  IN
  /\ c.pc = "run"
  /\ IF c.operationID >= Len(c.operations)
     THEN Set(p, End(c, "returned"))
     ELSE IF operation = Null
     THEN Set(p, [c EXCEPT !.operationID = @ + 1])
     ELSE Set(p, [Idle EXCEPT
                    !.operations = [c.operations EXCEPT
                                      ![c.operationID + 1] = data],
                    !.operationOptions = c.operationOptions,
                    !.results = c.results, !.operationID = c.operationID,
                    !.added = c.added, !.removed = c.removed,
                    !.removedIds = c.removedIds,
                    !.ran = Append(c.ran, [id |-> c.operationID,
                                           operation |-> data,
                                           result |-> <<>>]),
                    !.op = "methods." \o data.method,
                    !.pc = IF data.method = "create"
                           THEN "m.create.secondary"
                           ELSE "m." \o data.method \o ".get",
                    !.id = data.id, !.values = data.values,
                    !.preStore = <<Users, Profiles>>])
  /\ UNCHANGED <<env, Users, Profiles, nextUserId, nextProfileId>>

\* methods.get: the records, or [] when a readOrThrow throws.
Transaction_methods_get(p) ==
  /\ call[p].pc = "m.get.get"
  /\ TransactionGet(p, "done")

\* this.results[operationID] = await this.methods[...](operation);
\* operationID++.
Transaction_actions_run_result(p) ==
  LET c == call[p] IN
  /\ c.pc = "done" /\ c.op # "actions.run" /\ c.ran # <<>>
  /\ Set(p, [c EXCEPT
               !.op = "actions.run", !.pc = "run",
               !.results = [i \in DOMAIN @ \cup {c.operationID} |->
                              IF i = c.operationID THEN Records(c)
                              ELSE @[i]],
               !.ran = [@ EXCEPT ![Len(@)].result = Records(c)],
               !.operationID = @ + 1])
  /\ UNCHANGED <<env, Users, Profiles, nextUserId, nextProfileId>>

\* A transaction is built by add and remove and then run, once.
NextActions ==
  \/ Transaction_actions_add(1)
  \/ Transaction_actions_remove(1)
  \/ Transaction_actions_run(1)
  \/ Transaction_actions_run_operation(1)
  \/ Transaction_actions_run_result(1)
  \/ Transaction_methods_get(1)
  \/ Transaction_methods_create_secondary(1)
  \/ Transaction_methods_create_main(1)
  \/ Transaction_methods_update_get(1)
  \/ Transaction_methods_update_0(1)
  \/ Transaction_methods_update_1(1)
  \/ Transaction_methods_delete_get(1)
  \/ Transaction_methods_delete_0(1)
  \/ Transaction_methods_delete_1(1)

SpecActions == Init /\ [][NextActions]_vars

\* ------------------------------------------------------------ properties
Quiescent == \A p \in Procs : call[p].pc \in {"idle", "done", "responded"}

\* The call of p has ended with an error.
Threw(c) == c.pc = "done" /\ c.outcome \in {"Error", "UserProfileError"}

\* C1: after any sequence of completed UserProfile.create, update and delete
\* calls, store calls failing at will, every Profile record references a User
\* record that exists.
C1_ProfileReferencesUser ==
  Quiescent =>
    \A i \in ProfileIds :
      Profiles[i].ex =>
        /\ Profiles[i].user \in UserIds
        /\ Users[Profiles[i].user].ex

\* A delete whose store calls failed has ended and the profile is in the store.
C1_Witness ==
  /\ call[1].op = "delete" /\ Threw(call[1])
  /\ "profileDeleted" \in call[1].did
  /\ Profiles[call[1].id].ex

MultiTableCreates == {"create", "Transaction.create", "handleCollections.create"}

\* C2: in every multi-table create (Transaction.create,
\* handleCollections.create, UserProfile.create) the create of the secondary
\* record (the User) has completed before the create of the main record
\* (the Profile) is issued, and the main record is created with its linking
\* key "user" set to the secondary record just created.
C2_SecondaryBeforeMain ==
  \A p \in Procs :
    LET c == call[p] IN
    c.op \in MultiTableCreates =>
      /\ ("mainIssued" \in c.did \/ c.profile # 0) =>
           /\ c.mainLink \in UserIds
           /\ <<"Users", c.mainLink>> \in c.created
           /\ c.mainLink = c.user
      /\ \A i \in ProfileIds :
           (<<"Profiles", i>> \in c.created /\ Profiles[i].ex) =>
             Profiles[i].user = c.user

\* handleCollections.create has returned: the Profile it created links the
\* User it created before.
C2_Witness ==
  LET c == call[1] IN
  /\ c.op = "handleCollections.create" /\ c.outcome = "returned"
  /\ Profiles[c.profile].ex /\ Profiles[c.profile].user = c.user
  /\ Users[c.user].ex

\* The record of table t with this id is in the store.
InStore(t, id) == IF t = "Users" THEN Users[id].ex ELSE Profiles[id].ex

HoldsNewValues(c) ==
  /\ Users[c.userId].ex /\ Profiles[c.id].ex
  /\ Users[c.userId].email =
       (IF c.value.email # 0 THEN c.value.email ELSE c.preUser.email)
  /\ Users[c.userId].password =
       (IF c.value.password # 0 THEN Hash(c.value.password)
        ELSE c.preUser.password)
  /\ Profiles[c.id].username =
       (IF c.value.username # 0 THEN c.value.username
        ELSE c.preProfile.username)
  /\ Profiles[c.id].user = c.preProfile.user

\* Both rows are as they were when the call started.
HoldsPreValues(c) ==
  /\ Users[c.userId] = c.preUser
  /\ Profiles[c.id] = c.preProfile

Configured == env.JWT_ACCESS_SECRET_KEY /\ env.JWT_REFRESH_SECRET_KEY

\* The store is as it was when the request entered the route.
StoreUnchanged(c) == c.preStore = <<Users, Profiles>>

\* C6: every POST /profiles and PUT /profiles/{id} request whose JSON body
\* fails schema validation is answered with status 400 and a body keyed by
\* the offending fields, and performs no write to the store (checked in a
\* deployment that defines both keys).
C6_ValidationAnswered400 ==
  \A p \in Procs :
    LET c == call[p] IN
    (/\ Configured
     /\ c.route \in {"POST /profiles", "PUT /profiles/{id}"}
     /\ c.badKeys # {}
     /\ c.pc = "responded")
      => /\ c.status = 400
         /\ c.body = [kind |-> "errors", keys |-> c.badKeys]
         /\ c.op = "none"
         /\ StoreUnchanged(c)

\* C7: an authenticated GET or DELETE on /profiles/{id} for an id that has no
\* Profile record in the store is answered with status 404 and leaves the
\* store unchanged (checked in a deployment that defines both keys).
C7_MissingAnswered404 ==
  \A p \in Procs :
    LET c == call[p] IN
    (/\ Configured
     /\ c.route \in {"GET /profiles/{id}", "DELETE /profiles/{id}"}
     /\ c.auth.ok
     /\ c.op \in {"get", "delete"}
     /\ ~c.preProfile.ex
     /\ c.pc = "responded")
      => /\ c.status = 404
         /\ StoreUnchanged(c)

\* C8: on every protected profile route (GET /profiles, GET, PUT and DELETE
\* /profiles/{id}), when Auth.authenticate fails the response has status 401
\* and no UserProfile get, getAll, update or delete is executed for that
\* request.
C8_AuthFailure401 ==
  \A p \in Procs :
    LET c == call[p] IN
    (c.route \in ProtectedRoutes /\ c.auth.done /\ ~c.auth.ok) =>
      /\ c.pc \in {"done", "responded"}
      /\ c.op = "none"
      /\ c.did = {}
      /\ StoreUnchanged(c)
      /\ c.pc = "responded" => (c.status = 401 /\ c.body.kind = "message")

\* A DELETE whose refresh token did not verify has been answered, the profile
\* it could have deleted being in the store.
C8_Witness ==
  LET c == call[1] IN
  /\ c.route = "DELETE /profiles/{id}"
  /\ c.pc = "responded" /\ c.status = 401
  /\ c.auth.done /\ ~c.auth.ok
  /\ \E i \in ProfileIds : Profiles[i].ex

\* Auth.authenticate has just returned or thrown: the request's header and
\* cookie are still at hand.
AuthEnded(c) ==
  /\ c.auth.done
  /\ c.pc = "authenticated" \/ (c.pc = "done" /\ c.outcome = "AuthError")

\* C9: Auth.authenticate returns a profile only if the request carries both
\* an Authorization header of the form "JWT <token>" and a refresh cookie,
\* and either the access token verifies or the refresh token verifies; the
\* returned profile is the stored Profile whose id equals the subject of the
\* token that verified. In every other case it throws Auth.Error.
C9_AuthenticateConditions ==
  \A p \in Procs :
    LET c == call[p] IN
    AuthEnded(c) =>
      /\ c.auth.ok =>
           /\ c.pc = "authenticated"
           /\ c.header.scheme = "JWT" /\ c.header.token.kind # "none"
           /\ c.cookie.kind # "none"
           /\ \/ /\ c.header.token.kind = "access"
                 /\ env.JWT_ACCESS_SECRET_KEY
                 /\ c.header.token.sub = c.auth.profile
              \/ /\ c.cookie.kind = "refresh"
                 /\ env.JWT_REFRESH_SECRET_KEY
                 /\ c.cookie.sub = c.auth.profile
           /\ c.auth.profile \in ProfileIds
           /\ Profiles[c.auth.profile].ex
      /\ ~c.auth.ok => (c.pc = "done" /\ c.outcome = "AuthError")

\* authenticate has returned the profile of the refresh token's subject, the
\* access token presented being one that does not verify.
C9_Witness ==
  LET c == call[1] IN
  /\ AuthEnded(c) /\ c.auth.ok
  /\ c.header.token.kind = "bad"
  /\ c.cookie.kind = "refresh" /\ c.cookie.sub = c.auth.profile

\* The response part of C10: a response that went through Auth.handleResponse
\* carries the token authenticate returned in "jwt-access-changed", and no
\* response carries the header when the access token yielded the profile.
HeaderFollowsAuth(c) ==
  /\ (c.pc = "responded" /\ c.outcome = "returned"
      /\ c.route \in ProtectedRoutes)
       => c.jwtAccessChanged = c.auth.access
  /\ c.auth.accessProfile # 0 =>
       /\ c.auth.generated = NoToken /\ c.auth.access = NoToken
       /\ c.jwtAccessChanged = NoToken

\* C10 as stated: Auth.authenticate issues a new access token exactly when
\* the presented access token did not yield a profile and the refresh token
\* verifies: the new token has the refresh token's subject and
\* Auth.handleResponse then sets the "jwt-access-changed" response header to
\* it; when the presented access token yields a profile, no new access token
\* is generated and the header is not set. (Read in its favour: both keys
\* are defined, the request passes Auth.getTokens, and the refresh token has
\* a string subject.)
C10_Original ==
  \A p \in Procs :
    LET c == call[p] IN
    /\ (/\ AuthEnded(c) /\ Auth_getTokens(c.header, c.cookie)
        /\ Configured /\ c.cookie.sub # 0) =>
         /\ (c.auth.generated # NoToken) <=>
              /\ c.auth.accessProfile = 0
              /\ c.cookie.kind = "refresh" /\ env.JWT_REFRESH_SECRET_KEY
         /\ c.auth.generated # NoToken =>
              /\ c.auth.generated.sub = c.cookie.sub
              /\ c.auth.access = c.auth.generated
    /\ HeaderFollowsAuth(c)

\* C10 amended: Auth.authenticate returns a new access token exactly when the
\* request passes Auth.getTokens, the presented access token did not yield a
\* profile, the refresh token verifies with a string subject, the access key
\* is defined and the Profile with the subject's id is in the store and is
\* read; the token has the refresh token's subject, the response carries it
\* in "jwt-access-changed" when the route reaches Auth.handleResponse, and
\* nothing is generated or set when the access token yields a profile.
C10_NewAccessToken ==
  \A p \in Procs :
    LET c == call[p] IN
    /\ AuthEnded(c) =>
         /\ (c.auth.access # NoToken) <=>
              /\ c.header.scheme = "JWT" /\ c.header.token.kind # "none"
              /\ c.auth.accessProfile = 0
              /\ c.cookie.kind = "refresh" /\ env.JWT_REFRESH_SECRET_KEY
              /\ c.cookie.sub # 0
              /\ env.JWT_ACCESS_SECRET_KEY
              /\ c.auth.ok
         /\ c.auth.ok => Profiles[c.auth.profile].ex
         /\ c.auth.access # NoToken =>
              /\ c.auth.access = c.auth.generated
              /\ c.auth.access.kind = "access"
              /\ c.auth.access.sub = c.cookie.sub
              /\ c.auth.profile = c.cookie.sub
    /\ HeaderFollowsAuth(c)

\* A protected route has answered with the new access token in the header.
C10_Witness ==
  LET c == call[1] IN
  /\ c.pc = "responded" /\ c.status = 200
  /\ c.auth.accessProfile = 0
  /\ c.jwtAccessChanged.kind = "access"
  /\ c.jwtAccessChanged.sub = c.auth.profile

\* The request presents the tokens POST /profiles issued for profile i.
Presents(c, i) ==
  /\ c.header = [scheme |-> "JWT",
                 token |-> TokenGenerator_generate_AccessToken(i)]
  /\ c.cookie = TokenGenerator_generate_RefreshToken(i)

\* The tokens of a 201 carry the id of the Profile the request created.
IssuedForCreated(c) ==
  (c.route = "POST /profiles" /\ c.pc = "responded" /\ c.status = 201) =>
    /\ <<"Profiles", c.profile>> \in c.created
    /\ Profiles[c.profile].ex
    /\ c.issued.access.kind = "access" /\ c.issued.access.sub = c.profile
    /\ c.issued.refresh.kind = "refresh" /\ c.issued.refresh.sub = c.profile

C12_RoundTrip ==
  \A p \in Procs :
    LET c == call[p] IN
    (/\ c.op = "QueryString" /\ c.pc = "done"
     /\ c.query.categories # <<>> =>
          \A i \in 1..Len(c.query.categories[1]) :
            ~IncludesComma(c.query.categories[1][i]))
      => c.parsed = c.query


\* The validator built by useValidator has accepted the payload of the call.
Validated(c) ==
  /\ c.op \in {"APIHandler.create", "APIHandler.update"}
  /\ c.pc # "idle"
  /\ Valid(c.data, c.update)

\* arr has one entry per rule, in rule order, and every key of the payload
\* is in the entry of the table whose rules define it and in no other.
OneEntryPerRule(arr, data) ==
  /\ DOMAIN arr = DOMAIN UserProfileRules
  /\ \A i \in DOMAIN arr, key \in DOMAIN data :
       arr[i][key] = IF key \in Keys[UserProfileRules[i]] THEN data[key] ELSE 0

\* C13 as stated: for every payload that passes validation, in create mode and
\* in update mode, the function built by Validator.useValidator returns an
\* array with exactly one entry per table rule, in rule order (index 0 the
\* Profiles fields, index 1 the Users fields), each validated key in exactly
\* the entry of its table and none dropped.
C13_Original ==
  \A p \in Procs :
    LET c == call[p] IN
    Validated(c) => OneEntryPerRule(c.segregated, c.data)

\* C13: the same for every valid payload that has at least one key; for the
\* payload without keys, which only update mode accepts, the function returns
\* the empty array.
C13_OneEntryPerRule ==
  \A p \in Procs :
    LET c == call[p] IN
    Validated(c) =>
      IF KeysOf(c.data) = {} THEN c.segregated = <<>>
      ELSE OneEntryPerRule(c.segregated, c.data)

\* An update payload with a Users key and a Profiles key has been segregated.
C13_Witness ==
  \E p \in Procs :
    LET c == call[p] IN
    /\ Validated(c) /\ c.update
    /\ c.data.email # 0 /\ c.data.username # 0
    /\ DOMAIN c.segregated = {0, 1}

\* C14: every password written to the Users table by a create or update path
\* is the hash of the client's password: no Users record holds a password
\* equal to a plaintext value supplied in a request.
C14_PasswordsHashed ==
  \A u \in UserIds : Users[u].ex => Users[u].password \notin Passwords

\* C15: no object returned to the client by APIHandler.query, create, get,
\* update or delete, or by UserProfile.get, getAll, create, update or delete,
\* contains a "password" field (nor, for APIHandler, a "user" or "xata"
\* field), whatever the stored records contain.
C15_NoSensitiveFields ==
  \A p \in Procs :
    LET c == call[p]
        hidden == IF c.op \in {"APIHandler.query", "APIHandler.create",
                               "APIHandler.get", "APIHandler.update",
                               "APIHandler.delete"}
                  THEN {"password", "user", "xata"} ELSE {"password"}
    IN
    /\ c.result.keys \cap hidden = {}
    /\ \A n \in 1..Len(c.result.results) :
         c.result.results[n] \cap hidden = {}

\* APIHandler.update has returned the object whose stored password is the
\* plaintext of the request.
C15_Witness ==
  \E p \in Procs :
    LET c == call[p] IN
    /\ c.op = "APIHandler.update" /\ c.pc = "done"
    /\ c.result.kind = "object" /\ "email" \in c.result.keys
    /\ c.serializedComponents[1].password \in Passwords

\* C16: in the page object returned by UserProfile.getAll and by
\* APIHandler.query, count equals the number of elements in the results
\* array and never exceeds the effective page size, for every store content
\* and every page and size.
C16_CountIsResultsLength ==
  \A p \in Procs :
    LET c == call[p] IN
    c.result.kind = "page" =>
      /\ c.result.count = Len(c.result.results)
      /\ c.result.count <= c.result.size


\* C17: if Transaction.update fails after it has persisted the update of at
\* least one component (a later updateOrThrow throws or the key-by-key check
\* fails), then when the error reaches the caller every component it had
\* updated has been written back with the values read at the start of the
\* call, so the object equals its pre-call state, provided the compensating
\* writes succeed.
C17_UpdateReverted ==
  \A p \in Procs :
    LET c == call[p] IN
    (/\ c.op = "Transaction.update" /\ Threw(c)
     /\ c.updatedComponents # {}
     /\ "revertFailed" \notin c.did)
      => /\ <<Users, Profiles>> = c.preStore
         /\ Profiles[c.id] = c.profileCopy
         /\ Users[c.userId] = c.userCopy

\* An update that changed the username and the email has failed on the
\* second component's check or write and has been reverted.
C17_Witness ==
  \E p \in Procs :
    LET c == call[p] IN
    /\ c.op = "Transaction.update" /\ Threw(c)
    /\ 0 \in c.updatedComponents
    /\ "reverted" \in c.did /\ "revertFailed" \notin c.did
    /\ Override(c.profileCopy, c.values[0]) # c.profileCopy

\* C18: when the object exists and the store delete of every one of its
\* components succeeds, Transaction.delete returns the deleted components
\* without throwing and none of them remains in the store.
C18_DeleteReturns ==
  \A p \in Procs :
    LET c == call[p] IN
    (/\ c.op = "Transaction.delete" /\ c.pc = "done"
     /\ c.profileCopy.ex
     /\ "storeThrew" \notin c.did)
      => /\ c.outcome = "returned"
         /\ ~Profiles[c.id].ex
         /\ ~Users[c.userId].ex

\* C19: whenever Transaction.delete throws, every component it had deleted
\* during the call has been re-created in its collection, so the object is
\* again fully present in all its tables, provided the compensating creates
\* succeed.
C19_DeleteReverted ==
  \A p \in Procs :
    LET c == call[p] IN
    (/\ c.op = "Transaction.delete" /\ Threw(c)
     /\ "revertFailed" \notin c.did)
      => /\ <<Users, Profiles>> = c.preStore
         /\ c.profileCopy.ex =>
              /\ Profiles[c.id] = c.profileCopy
              /\ Users[c.userId] = c.userCopy

\* A delete has removed the Profiles component, thrown, and re-created it.
C19_Witness ==
  \E p \in Procs :
    LET c == call[p] IN
    /\ c.op = "Transaction.delete" /\ Threw(c)
    /\ 0 \in c.deletedComponents
    /\ "reverted" \in c.did
    /\ Profiles[c.id].ex
\* C20: the create, update and delete methods of the final Transaction class
\* perform a revert back in case of error: when one of them returns the
\* empty array because a store call failed midway, no record created,
\* updated or deleted earlier in that same call remains changed in the store.
C20_MethodsRevert ==
  \A p \in Procs :
    LET c == call[p] IN
    (/\ c.op \in {"methods.create", "methods.update", "methods.delete"}
     /\ c.pc = "done" /\ c.outcome = "empty"
     /\ "storeThrew" \in c.did)
      => <<Users, Profiles>> = c.preStore


\* C21: after add and remove calls, run executes exactly the operations that
\* were added and not removed, each once, in the order they were added, and
\* stores each result in results under the id add returned for it; the ids
\* of the remaining operations are not changed by remove; remove returns
\* the operation the first time and undefined on any repeat.
C21_RunsRemainingInOrder ==
  \A p \in Procs :
    LET c == call[p]
        ended == c.op = "actions.run" /\ c.pc = "done"
    IN
    /\ \A j \in 1..Len(c.added) : c.added[j].id = j - 1
    /\ Len(c.operations) = Len(c.added)
    /\ \A j \in 1..Len(c.added) :
         LET entry == c.operations[c.added[j].id + 1] IN
         IF c.added[j].id \in c.removedIds THEN entry = Null
         ELSE /\ entry.method = c.added[j].operation.method
              /\ entry.id = c.added[j].operation.id
    /\ \A j \in 1..Len(c.removed) :
         LET r == c.removed[j] IN
         r.operation = IF r.added /\ r.id \notin r.earlier
                       THEN c.added[r.id + 1].operation ELSE Null
    /\ \A j \in 1..Len(c.ran) :
         /\ c.ran[j].id \in {c.added[i].id : i \in 1..Len(c.added)}
                              \ c.removedIds
         /\ c.ran[j].operation.method
              = c.added[c.ran[j].id + 1].operation.method
         /\ c.ran[j].operation.id = c.added[c.ran[j].id + 1].operation.id
         /\ \A i \in 1..(j - 1) : c.ran[i].id < c.ran[j].id
    /\ DOMAIN c.results \subseteq {c.ran[j].id : j \in 1..Len(c.ran)}
    /\ \A j \in 1..Len(c.ran) :
         c.ran[j].id \in DOMAIN c.results =>
           c.results[c.ran[j].id] = c.ran[j].result
    /\ ended =>
         /\ {c.ran[j].id : j \in 1..Len(c.ran)}
              = {c.added[i].id : i \in 1..Len(c.added)} \ c.removedIds
         /\ DOMAIN c.results = {c.ran[j].id : j \in 1..Len(c.ran)}

\* A run has ended on two operations added, the first removed, twice: the
\* other one ran and returned a table object, stored under its id.
C21_Witness ==
  LET c == call[1] IN
  /\ c.op = "actions.run" /\ c.pc = "done"
  /\ Len(c.added) = 2 /\ Len(c.ran) = 1
  /\ c.removedIds = {0}
  /\ c.removed # <<>> /\ c.removed[1].id = 0
  /\ c.removed[1].earlier = {0} /\ c.removed[1].operation = Null
  /\ DOMAIN c.results = {1} /\ c.results[1] # <<>>

\* C22: when a create or update operation was added with
\* options.useResultForValues = k, k the id of an operation added earlier
\* (the first one, k = 0, included), run calls its method with data.values
\* equal to results[k], the result of operation k in that run.
C22_ValuesFromResult ==
  \A p \in Procs :
    LET c == call[p] IN
    \A j \in 1..Len(c.ran) :
      LET id == c.ran[j].id
          options == c.added[id + 1].options
      IN
      (/\ options # <<>> /\ options[1] < id
       /\ options[1] \in DOMAIN c.results)
        => c.ran[j].operation.values = c.results[options[1]]

\* C23: APIRouter.handleCollections.create returns only after every
\* secondary record has been created: the components array it returns holds
\* one created record per collection, and the main record was created with
\* its linking key set to the secondary record created.
C23_ReturnsAfterSecondary ==
  \A p \in Procs :
    LET c == call[p] IN
    (/\ c.op = "APIRouter.handleCollections.create"
     /\ c.pc = "done" /\ c.outcome = "returned")
      => /\ "secondaryHeld" \in c.did
         /\ c.components[0] # 0 /\ c.components[1] # 0
         /\ Profiles[c.profile].user = c.components[1]

\* C24: a route handler produced by APIHandler.useNext answers with status
\* 400 and field-keyed messages when payload validation fails, with status
\* 500 and the error message when any other error occurs in the operation,
\* and with a success status only when the operation succeeded.
C24_StatusFollowsOutcome ==
  \A p \in Procs :
    LET c == call[p] IN
    (c.route = "useNext" /\ c.pc = "responded") =>
      /\ c.outcome = "ValidationError" =>
           c.status = 400 /\ c.body.kind = "error"
      /\ c.outcome \notin {"returned", "ValidationError"} =>
           c.status = 500 /\ c.body.kind = "message"
      /\ c.status \in 200..299 => c.outcome = "returned"

\* C25: after any APIHandler.create, update or delete call has ended, with
\* a result or with an error, the logical object is consistent across its
\* tables: either all of its component records reflect the operation or none
\* does; no record is left created, updated or deleted in one table only.
C25_AllOrNothing ==
  \A p \in Procs :
    LET c == call[p]
        sc == c.serializedComponents
        touched(i) == \E key \in Keys[UserProfileRules[i]] : c.data[key] # 0
    IN
    (c.pc \in {"done", "responded"} /\ c.preStore # <<>>) =>
      /\ c.op \in {"APIHandler.create", "APIHandler.delete"} =>
           (Users # c.preStore[1] <=> Profiles # c.preStore[2])
      /\ (c.op = "APIHandler.update" /\ sc # <<>>) =>
           \/ <<Users, Profiles>> = c.preStore
           \/ /\ touched(0) => Profiles[c.id] = sc[0]
              /\ touched(1) => Users[c.user] = sc[1]

\* C26: in the page returned by UserProfile.getAll and APIHandler.query,
\* hasNextPage is true exactly when a request for the following page with
\* the same size would return at least one object, also when main records
\* of the current page are skipped because their secondary record is
\* missing.
C26_HasNextPageExact ==
  \A p \in Procs :
    LET c == call[p]
        hasNextPage == Len(c.result.results) > c.result.size
        following ==
          IF c.op = "getAll"
          THEN getAll([c.pagination EXCEPT
                         !.page = <<getAll_page(c.pagination) + 1>>],
                      getAll_page(c.pagination) * getAll_size(c.pagination))
          ELSE query([c.pagination EXCEPT
                        !.page = <<query_page(c.pagination) + 1>>])
    IN
    (c.op \in {"getAll", "APIHandler.query"} /\ c.result.kind = "page") =>
      (hasNextPage <=> Len(following.results) >= 1)

\* C27: when POST /profiles is answered with a status other than 201, no
\* User record and no Profile record created by the request remains in the
\* store.
C27_NothingRemainsUnless201 ==
  \A p \in Procs :
    LET c == call[p] IN
    (/\ c.pc = "responded"
     /\ c.route = "POST /profiles"
     /\ c.status # 201) =>
      /\ \A u \in UserIds : Users[u].ex => c.preStore[1][u].ex
      /\ \A i \in ProfileIds : Profiles[i].ex => c.preStore[2][i].ex

\* C28: once a UserProfile.delete(id) call has returned successfully, the
\* Profile and its User stay absent from the store under every interleaving:
\* no concurrent update or delete that fails re-creates them with its
\* compensating writes.
C28_DeletedStaysAbsent ==
  \A p \in Procs :
    LET c == call[p] IN
    (c.op = "delete" /\ c.pc = "done" /\ c.outcome = "returned") =>
      /\ ~Profiles[c.id].ex
      /\ ~Users[c.userId].ex

\* C29: of two concurrent UserProfile.update calls on the same id, the
\* compensating writes of the one that fails leave every value in place that
\* the one that has returned successfully wrote.
C29_FailedUpdateKeepsOthersWrites ==
  [][\A p \in Procs, q \in Procs :
       LET c == call[p]
           d == call[q]
       IN
       (/\ p # q
        /\ c.op = "update" /\ c.pc = "done" /\ c.outcome = "returned"
        /\ d.op = "update" /\ d.id = c.id
        /\ d.pc \in {"update.catch.Users", "update.catch.Profiles"}
        /\ call'[q] # d) =>
         /\ (c.value.email # 0 /\ Users[c.userId].email = c.value.email)
              => Users'[c.userId].email = c.value.email
         /\ (c.value.password # 0
              /\ Users[c.userId].password = c.hashedPassword)
              => Users'[c.userId].password = c.hashedPassword
         /\ (c.value.username # 0
              /\ Profiles[c.id].username = c.value.username)
              => Profiles'[c.id].username = c.value.username]_vars

====
